---- MODULE Spec2Model ----
(***************************************************************************)
(* Model of the attestation workflow engine of FDC-101                     *)
(* (src/src/services/FDCService.ts): RetryStrategy, ProofCache,            *)
(* waitForRoundFinalization, retrieveProof and executeAttestationWorkflow. *)
(*                                                                         *)
(* Time.  The code reads the wall clock only to form differences           *)
(* (Date.now() - entry.timestamp, Date.now() - startTime) and compares     *)
(* each difference with one limit (ttl, maxWaitTimeMs).  The model keeps   *)
(* the differences themselves (age, elapsed), advanced together by Tick    *)
(* and clamped one above the limit they are compared with, which leaves    *)
(* every comparison of the code exact.  A sleep(d) ends no earlier than d  *)
(* after it began (remaining counts down to 0) and may end later.          *)
(*                                                                         *)
(* Strings that the code concatenates are sequences of one-character       *)
(* strings, so that generateKey is computed and not assumed injective.     *)
(***************************************************************************)
EXTENDS Integers, Sequences, FiniteSets, TLC

VARIABLES
    rs,      \* one RetryStrategy.execute call and what its caller observed
    svc,     \* the FDCService fields set by its constructor
    cache,   \* ProofCache.cache: key -> [data, age]
    wf,      \* per workflow: position and locals of executeAttestationWorkflow
    probe    \* what the direct caller of ProofCache observed (cache harness)

vars == <<rs, svc, cache, wf, probe>>

None == "none"

\* An absent error or record (null / undefined where the code holds an object).
NoError == [name |-> "none", code |-> ""]

Null == [null |-> TRUE]

Min(a, b) == IF a < b THEN a ELSE b

Max(a, b) == IF a > b THEN a ELSE b

\* A clock difference kept exact up to `limit` and clamped just above it.
Clamp(x, limit) == IF x > limit THEN limit + 1 ELSE x

(***************************************************************************)
(* RetryStrategy                                                           *)
(***************************************************************************)

\* Largest maxAttempts a caller passes explicitly (0 stands for "not given").
MaxAttemptsOpt == 3

DefaultMaxAttempts == 10

DefaultInitialDelayMs == 1000

DefaultMaxDelayMs == 60000

DefaultBackoffMultiplier == 2

\* `x || d` on numbers: 0 (and an absent option, modelled as 0) is falsy.
OrDefault(x, d) == IF x = 0 THEN d ELSE x

\* RetryOptions as a caller passes them; 0 = option absent (or 0).
RetryOptionChoices ==
    [maxAttempts : 0..MaxAttemptsOpt,
     initialDelayMs : {0, 20000},
     maxDelayMs : {0, 10000, 30000},
     backoffMultiplier : {0, 3}]

\* new RetryStrategy(options)
RetryStrategyNew(options) ==
    [maxAttempts |-> OrDefault(options.maxAttempts, DefaultMaxAttempts),
     initialDelayMs |-> OrDefault(options.initialDelayMs, DefaultInitialDelayMs),
     maxDelayMs |-> OrDefault(options.maxDelayMs, DefaultMaxDelayMs),
     backoffMultiplier |-> OrDefault(options.backoffMultiplier, DefaultBackoffMultiplier)]

\* for-loop condition: attempt <= this.maxAttempts
LoopContinuesOffByOne(attempt, maxAttempts) == attempt < maxAttempts

LoopContinues(attempt, maxAttempts) == attempt <= maxAttempts

\* if (attempt === this.maxAttempts) break;
IsLastAttemptAlways(attempt, maxAttempts) == TRUE

IsLastAttempt(attempt, maxAttempts) == attempt = maxAttempts

\* delay = Math.min(delay * this.backoffMultiplier, this.maxDelayMs)
NextDelay(delay, strategy) ==
    Min(delay * strategy.backoffMultiplier, strategy.maxDelayMs)

\* throw new FDCRetryError(msg, this.maxAttempts, lastError || undefined)
FDCRetryErrorNoCause(maxAttempts, lastError) ==
    [name |-> "FDCRetryError", code |-> "RETRY_EXHAUSTED",
     attempts |-> maxAttempts, originalError |-> NoError]

FDCRetryError(maxAttempts, lastError) ==
    [name |-> "FDCRetryError", code |-> "RETRY_EXHAUSTED",
     attempts |-> maxAttempts, originalError |-> lastError]

\* The error the n-th call of the operation under test throws.
OpError(n) == [name |-> "Error", code |-> "OP_FAILED", call |-> n]

CallbackError == [name |-> "Error", code |-> "CALLBACK_THREW", call |-> 0]

SuccessValue == "value"

\* What the caller of execute can observe, in order: a call of operation(), a
\* call of onRetry(attempt, error), a sleep.
Event(ev, attempt, e) == [ev |-> ev, attempt |-> attempt, error |-> e]

\* The catch block after the break test: onRetry when given, then sleep(delay).
AfterFailureSleepFirst(attempt, e, mode) ==
    <<Event("sleep", attempt, NoError)>> \o
    (IF mode = "absent" THEN <<>> ELSE <<Event("onRetry", attempt, e)>>)

AfterFailure(attempt, e, mode) ==
    (IF mode = "absent" THEN <<>> ELSE <<Event("onRetry", attempt, e)>>) \o
    (IF mode = "throws" THEN <<>> ELSE <<Event("sleep", attempt, NoError)>>)

\* The operation under test fails on its first failsBefore calls and succeeds
\* afterwards; failsBefore > maxAttempts is an operation that always fails.
FailScripts == 0..(DefaultMaxAttempts + 1)

OnRetryModes == {"absent", "returns", "throws"}

RsIdle == [pc |-> "idle"]

RsInit(options, k, mode) ==
    LET s == RetryStrategyNew(options) IN
    [pc |-> "start", options |-> options, strategy |-> s,
     failsBefore |-> k, onRetry |-> mode,
     attempt |-> 1, delay |-> s.initialDelayMs,
     lastError |-> NoError,
     calls |-> 0, slept |-> <<>>, retried |-> <<>>, trace |-> <<>>,
     outcome |-> None, value |-> None, error |-> NoError]

\* Loop entry and the call of operation() for the current attempt.
RetryCall ==
    /\ rs.pc \in {"start", "woke"}
    /\ IF LoopContinues(rs.attempt, rs.strategy.maxAttempts)
       THEN rs' = [rs EXCEPT !.pc = "inOperation", !.calls = @ + 1,
                       !.trace = Append(@, Event("operation", rs.attempt, NoError))]
       ELSE rs' = [rs EXCEPT !.pc = "done", !.outcome = "threw",
                       !.error = FDCRetryError(rs.strategy.maxAttempts,
                                               rs.lastError)]
    /\ UNCHANGED <<svc, cache, wf, probe>>

\* operation() resolves: return await operation()
RetryOperationSucceeds ==
    /\ rs.pc = "inOperation"
    /\ rs.calls > rs.failsBefore
    /\ rs' = [rs EXCEPT !.pc = "done", !.outcome = "returned",
                        !.value = SuccessValue]
    /\ UNCHANGED <<svc, cache, wf, probe>>

\* operation() rejects: the catch block up to `await sleep(delay)`.
RetryOperationFails ==
    /\ rs.pc = "inOperation"
    /\ rs.calls <= rs.failsBefore
    /\ LET e == OpError(rs.calls) IN
       IF IsLastAttempt(rs.attempt, rs.strategy.maxAttempts)
       THEN rs' = [rs EXCEPT !.pc = "done", !.outcome = "threw",
                       !.lastError = e,
                       !.error = FDCRetryError(rs.strategy.maxAttempts, e)]
       ELSE IF rs.onRetry = "throws"
       THEN rs' = [rs EXCEPT !.pc = "done", !.outcome = "threw",
                       !.lastError = e,
                       !.retried = Append(@, <<rs.attempt, e>>),
                       !.trace = @ \o AfterFailure(rs.attempt, e, rs.onRetry),
                       !.error = CallbackError]
       ELSE rs' = [rs EXCEPT !.pc = "sleeping",
                       !.lastError = e,
                       !.retried = IF rs.onRetry = "returns"
                                   THEN Append(@, <<rs.attempt, e>>) ELSE @,
                       !.trace = @ \o AfterFailure(rs.attempt, e, rs.onRetry),
                       !.slept = Append(@, rs.delay)]
    /\ UNCHANGED <<svc, cache, wf, probe>>

\* sleep(delay) resolves: the delay update and attempt++ of the for loop.
RetryWake ==
    /\ rs.pc = "sleeping"
    /\ rs' = [rs EXCEPT !.pc = "woke",
                        !.delay = NextDelay(rs.delay, rs.strategy),
                        !.attempt = @ + 1]
    /\ UNCHANGED <<svc, cache, wf, probe>>

(***************************************************************************)
(* ProofCache                                                              *)
(***************************************************************************)

\* String(n) for an integer n, as a sequence of characters.
Digit(d) == <<"0", "1", "2", "3", "4", "5", "6", "7", "8", "9">>[d + 1]

RECURSIVE NatToString(_)
NatToString(n) ==
    IF n < 10 THEN <<Digit(n)>>
    ELSE NatToString(n \div 10) \o <<Digit(n % 10)>>

NumberToString(n) == IF n < 0 THEN <<"-">> \o NatToString(-n) ELSE NatToString(n)

\* generateKey: `${abiEncodedRequest}:${roundId}`
generateKeyNoRound(abiEncodedRequest, roundId) == abiEncodedRequest \o <<":">>

generateKey(abiEncodedRequest, roundId) ==
    abiEncodedRequest \o <<":">> \o NumberToString(roundId)

\* age > this.ttl
ExpiredAtTtl(age, ttl) == age >= ttl

Expired(age, ttl) == age > ttl

\* { data, timestamp: Date.now() }: a new entry has age Date.now() - timestamp = 0.
NewEntry(data) == [data |-> data, age |-> 0]

\* ProofCache.get: the value returned and the map afterwards.
ProofCacheGetNoEvict(c, ttl, key) ==
    IF key \notin DOMAIN c \/ Expired(c[key].age, ttl)
    THEN [result |-> Null, cache |-> c]
    ELSE [result |-> c[key].data, cache |-> c]

ProofCacheGetEvictsAll(c, ttl, key) ==
    IF key \notin DOMAIN c
    THEN [result |-> Null, cache |-> c]
    ELSE IF Expired(c[key].age, ttl)
    THEN [result |-> Null, cache |-> [k \in {} |-> Null]]
    ELSE [result |-> c[key].data, cache |-> c]

ProofCacheGet(c, ttl, key) ==
    IF key \notin DOMAIN c
    THEN [result |-> Null, cache |-> c]
    ELSE IF Expired(c[key].age, ttl)
    THEN [result |-> Null, cache |-> [k \in DOMAIN c \ {key} |-> c[k]]]
    ELSE [result |-> c[key].data, cache |-> c]

\* ProofCache.set
ProofCacheSetKeepTimestamp(c, key, data) ==
    [k \in DOMAIN c \cup {key} |->
        IF k = key
        THEN IF key \in DOMAIN c THEN [data |-> data, age |-> c[key].age]
                                 ELSE NewEntry(data)
        ELSE c[k]]

ProofCacheSetDropped(c, key, data) == c

ProofCacheSetIfAbsent(c, key, data) ==
    IF key \in DOMAIN c THEN c
    ELSE [k \in DOMAIN c \cup {key} |-> IF k = key THEN NewEntry(data) ELSE c[k]]

ProofCacheSet(c, key, data) ==
    [k \in DOMAIN c \cup {key} |-> IF k = key THEN NewEntry(data) ELSE c[k]]

\* ProofCache.clear
ProofCacheClear(c) == [k \in {} |-> Null]

EmptyCache == [k \in {} |-> Null]

\* Date.now() moves on by d: every stored difference grows by d.
AgedCache(c, ttl, d) ==
    [k \in DOMAIN c |-> [c[k] EXCEPT !.age = Clamp(@ + d, ttl)]]

(***************************************************************************)
(* FDCService: construction and options                                    *)
(***************************************************************************)

\* PollingOptions: `keys` are the properties the object has; a property it
\* lacks (or holds as undefined) reads as 0, which is falsy like undefined.
PollingOptionsOf(keys, checkIntervalMs, maxWaitTimeMs) ==
    [keys |-> keys,
     checkIntervalMs |-> IF "checkIntervalMs" \in keys THEN checkIntervalMs ELSE 0,
     maxWaitTimeMs |-> IF "maxWaitTimeMs" \in keys THEN maxWaitTimeMs ELSE 0]

NoPollingOptions == PollingOptionsOf({}, 0, 0)

\* if (pollingOptions.onProgress) pollingOptions.onProgress(message): the
\* callback, when given, returns or throws.
ProgressOutcomes(pollingOptions) ==
    IF "onProgress" \in pollingOptions.keys THEN {"returns", "throws"} ELSE {"absent"}

ProgressError == [name |-> "Error", code |-> "PROGRESS_THREW"]

\* { ...this.defaultPollingOptions, ...options }
MergeOptions(defaults, options) ==
    [keys |-> defaults.keys \cup options.keys,
     checkIntervalMs |-> IF "checkIntervalMs" \in options.keys
                         THEN options.checkIntervalMs ELSE defaults.checkIntervalMs,
     maxWaitTimeMs |-> IF "maxWaitTimeMs" \in options.keys
                       THEN options.maxWaitTimeMs ELSE defaults.maxWaitTimeMs]

\* new FDCService(options): options.given names the properties the caller set.
FDCServiceNew(options, fdcConfig) ==
    [caching |-> IF "enableCaching" \in options.given
                 THEN options.enableCaching ELSE fdcConfig.enableProofCache,
     ttl |-> OrDefault(options.cacheTtlMs, fdcConfig.proofCacheTtlMs),
     defaultRetryOptions |->
        IF "defaultRetryOptions" \in options.given
        THEN options.defaultRetryOptions
        ELSE [maxAttempts |-> fdcConfig.requestRetryAttempts,
              initialDelayMs |-> DefaultInitialDelayMs,
              maxDelayMs |-> DefaultMaxDelayMs,
              backoffMultiplier |-> DefaultBackoffMultiplier],
     defaultPollingOptions |->
        IF "defaultPollingOptions" \in options.given
        THEN options.defaultPollingOptions
        ELSE PollingOptionsOf({"checkIntervalMs", "maxWaitTimeMs"},
                              fdcConfig.roundFinalizationCheckIntervalMs,
                              fdcConfig.maxRoundFinalizationWaitMs),
     proofGenerationCheckIntervalMs |-> fdcConfig.proofGenerationCheckIntervalMs,
     \* this.configManager's FDCConfig, and whether the caller gave retry options
     fdcConfig |-> fdcConfig,
     retryOptionsGiven |-> "defaultRetryOptions" \in options.given]

NoService ==
    [caching |-> FALSE, ttl |-> 0,
     defaultRetryOptions |-> [maxAttempts |-> 0, initialDelayMs |-> 0,
                              maxDelayMs |-> 0, backoffMultiplier |-> 0],
     defaultPollingOptions |-> NoPollingOptions,
     proofGenerationCheckIntervalMs |-> 0]

(***************************************************************************)
(* Collaborators: what the preparer, the ledger, the oracle and the        *)
(* proof-distribution service can answer                                   *)
(***************************************************************************)

DeadRequest == <<"0", "x", "d", "e", "a", "d">>

EncodedRequests == {DeadRequest}

\* Answers of the preparer: fetch rejects, a non-2xx status, or a 2xx body.
PreparerAnswers ==
    {[kind |-> "networkError", status |-> "", abiEncodedRequest |-> <<>>],
     [kind |-> "httpError", status |-> "", abiEncodedRequest |-> <<>>],
     [kind |-> "body", status |-> "INVALID", abiEncodedRequest |-> <<>>]}
    \cup {[kind |-> "body", status |-> "VALID", abiEncodedRequest |-> r] :
            r \in EncodedRequests}

\* Chain data read by submitAttestationRequest (seconds).
BlockTimestamps == {450, 545}

\* firstVotingRoundStartTs() and votingEpochDurationSeconds() of the chain.
ProtocolParameters ==
    {[firstVotingRoundStartTs |-> 0, votingEpochDurationSeconds |-> 90]}

\* BigInt division truncates towards zero.
BigIntDiv(a, b) ==
    IF (a >= 0) = (b > 0) THEN (IF a >= 0 THEN a ELSE -a) \div (IF b > 0 THEN b ELSE -b)
    ELSE -((IF a >= 0 THEN a ELSE -a) \div (IF b > 0 THEN b ELSE -b))

\* Number((blockTimestamp - firstVotingRoundStartTs) / votingEpochDurationSeconds)
RoundIdOfRoundedUp(blockTimestamp, firstTs, duration) ==
    BigIntDiv(blockTimestamp - firstTs + duration - 1, duration)

RoundIdOf(blockTimestamp, firstTs, duration) ==
    BigIntDiv(blockTimestamp - firstTs, duration)

\* The proof of a finalized round for a request is a fixed fact; the service
\* serves it whole ("full"), or with the proof path still missing ("partial").
DAResponseHex(abiEncodedRequest, roundId) ==
    IF roundId = 5 THEN "0xbeef" ELSE "0xf00d"

DAFullProof(abiEncodedRequest, roundId) ==
    [response_hex |-> DAResponseHex(abiEncodedRequest, roundId),
     attestation_type |-> "X", proof |-> <<>>,
     fields |-> {"response_hex", "attestation_type", "proof"}]

DAPartialProof(abiEncodedRequest, roundId) ==
    [response_hex |-> DAResponseHex(abiEncodedRequest, roundId),
     attestation_type |-> "", proof |-> <<>>,
     fields |-> {"response_hex"}]

DAEmptyBody ==
    [response_hex |-> "", attestation_type |-> "", proof |-> <<>>, fields |-> {}]

\* Answers of the proof-distribution service to one fetch.
DAAnswers(abiEncodedRequest, roundId) ==
    {[kind |-> "throws", ok |-> FALSE, rejects |-> "fetch", data |-> DAEmptyBody],
     [kind |-> "httpError", ok |-> FALSE, rejects |-> "", data |-> DAEmptyBody],
     [kind |-> "unparseable", ok |-> TRUE, rejects |-> "json", data |-> DAEmptyBody],
     [kind |-> "empty", ok |-> TRUE, rejects |-> "", data |-> DAEmptyBody],
     [kind |-> "partial", ok |-> TRUE, rejects |-> "",
      data |-> DAPartialProof(abiEncodedRequest, roundId)],
     [kind |-> "full", ok |-> TRUE, rejects |-> "",
      data |-> DAFullProof(abiEncodedRequest, roundId)]}

\* await fetch(...) and await response.json() stand outside any try: a
\* rejection of either leaves the loop and retrieveProof.
DAThrowsFetchOnly(answer) == answer.rejects = "fetch"

DAThrows(answer) == answer.rejects # ""

OracleAnswers == {"true", "false", "throws"}

(***************************************************************************)
(* Errors                                                                  *)
(***************************************************************************)

FDCError(code) == [name |-> "FDCError", code |-> code]

\* Whatever a collaborator call rejects with, tagged with the call.
CollaboratorError(call) == [name |-> "Error", code |-> call]

\* new FDCTimeoutError(message, pollingOptions.maxWaitTimeMs)
FDCTimeoutErrorWithoutLimit(timeoutMs) ==
    [name |-> "FDCTimeoutError", code |-> "TIMEOUT", timeoutMs |-> 0]

FDCTimeoutError(timeoutMs) ==
    [name |-> "FDCTimeoutError", code |-> "TIMEOUT", timeoutMs |-> timeoutMs]

(***************************************************************************)
(* executeAttestationWorkflow, one record per running call                 *)
(***************************************************************************)

WorkflowIds == {"w1", "w2"}

SettleDelayMs == 10000

DefaultCheckIntervalMs == 30000

AdaptAfterChecks == 5

MaxCheckIntervalMs == 60000

\* Negative answers whose count is kept exactly: up to MaxCountedMisses of the
\* oracle and one less of the proof service; beyond that, "more".
MaxCountedMisses == 2

Unused == [pc |-> "unused"]

\* AttestationRequestParams as a caller passes them to the service: the three
\* required strings, each possibly empty.
ValidParams == [apiUrl |-> "https://api", postProcessJq |-> ".", abiSignature |-> "tuple"]

RequestParamChoices ==
    {ValidParams, [ValidParams EXCEPT !.apiUrl = ""],
     [ValidParams EXCEPT !.postProcessJq = ""], [ValidParams EXCEPT !.abiSignature = ""]}

WfStart(params, pollingOptions) ==
    [pc |-> "start",
     params |-> params,                   \* 1st argument; not read once prepared
     pollingOptions |-> pollingOptions,   \* 4th argument of the call
     merged |-> NoPollingOptions,         \* retrieveProof's pollingOptions
     attempt |-> 0, delay |-> 0, lastError |-> NoError,
     remaining |-> 0,                     \* time left of the pending sleep
     prepared |-> Null, roundInfo |-> Null,
     elapsed |-> 0,                       \* Date.now() - startTime
     sinceCall |-> 0,                     \* time since waitForRoundFinalization was called
     checkInterval |-> 0, consecutiveChecks |-> 0,
     proof |-> Null, error |-> NoError,
     \* what the collaborators saw and said
     prepCalls |-> 0, submitCalls |-> 0, txCount |-> 0,
     oracleFalses |-> 0, finalized |-> FALSE, proofMisses |-> 0,
     sinceFinalized |-> 0,                \* time since the waiter returned, while settling
     sincePolling |-> 0,                  \* time since the first proof request
     answerThrew |-> FALSE,               \* the last isFinalized / fetch / json() rejected
     sinceAbort |-> -1,                   \* time since the caller gave up; -1: it has not
     proofFrom |-> None]

Running(w) == wf[w].pc \notin {"unused", "COMPLETE", "FAILED"}

\* The phase of the orchestrator a position belongs to.
Phase(pc) ==
    CASE pc \in {"start", "prep_fetch", "prep_sleep"} -> "PREPARING"
      [] pc \in {"sub_fee", "sub_tx", "sub_reads"} -> "SUBMITTING"
      [] pc \in {"ret_lookup", "ret_config", "wait_init", "wait_poll", "wait_sleep",
                 "settle", "proof_poll", "proof_sleep"} -> "AWAITING_PROOF"
      [] OTHER -> pc

\* The locals of a function are gone once it has returned or thrown.
NoLocals(r) ==
    [r EXCEPT !.attempt = 0, !.delay = 0, !.lastError = NoError, !.remaining = 0,
              !.elapsed = 0, !.sinceCall = 0, !.sincePolling = 0, !.checkInterval = 0,
              !.consecutiveChecks = 0]

FailRestarts(w, e) == WfStart(wf[w].params, wf[w].pollingOptions)

Fail(w, e) == [NoLocals(wf[w]) EXCEPT !.pc = "FAILED", !.error = e]

\* A timeout leaves the elapsed times it was raised at on record.
FailTimeout(w, e) ==
    [Fail(w, e) EXCEPT !.elapsed = wf[w].elapsed, !.sinceCall = wf[w].sinceCall,
                       !.sincePolling = wf[w].sincePolling]

\* data.status !== "VALID" throws; otherwise the body is the PreparedAttestationRequest
PreparerAcceptsAnyStatus(answer) == answer.kind = "body"

PreparerAccepts(answer) == answer.kind = "body" /\ answer.status = "VALID"

PreparerFailure(answer) ==
    CASE answer.kind = "networkError" -> CollaboratorError("fetch")
      [] answer.kind = "httpError" -> FDCError("VERIFIER_ERROR")
      [] OTHER -> FDCError("INVALID_REQUEST")

\* prepareAttestationRequest up to the first fetch of retryStrategy.execute.
PrepareStart(w) ==
    /\ wf[w].pc = "start"
    /\ LET s == RetryStrategyNew(svc.defaultRetryOptions) IN
       wf' = [wf EXCEPT ![w] =
                IF LoopContinues(1, s.maxAttempts)
                THEN [@ EXCEPT !.pc = "prep_fetch", !.attempt = 1,
                               !.delay = s.initialDelayMs, !.prepCalls = 1]
                ELSE Fail(w, FDCRetryError(s.maxAttempts, NoError))]
    /\ UNCHANGED <<rs, svc, cache, probe>>

\* The preparer answers: the operation returns or throws, then the catch block
\* of execute; on success the workflow goes on into submitAttestationRequest.
PreparerResponds(w) ==
    /\ wf[w].pc = "prep_fetch"
    /\ \E answer \in PreparerAnswers :
        LET s == RetryStrategyNew(svc.defaultRetryOptions)
            e == PreparerFailure(answer)
        IN
        wf' = [wf EXCEPT ![w] =
                 IF PreparerAccepts(answer)
                 THEN [NoLocals(@) EXCEPT !.pc = "sub_fee", !.params = Null,
                                !.prepared = [status |-> answer.status,
                                              abiEncodedRequest |-> answer.abiEncodedRequest],
                                !.submitCalls = @ + 1]
                 ELSE IF IsLastAttempt(wf[w].attempt, s.maxAttempts)
                 THEN Fail(w, FDCRetryError(s.maxAttempts, e))
                 ELSE [@ EXCEPT !.pc = "prep_sleep",
                                !.lastError = e, !.remaining = wf[w].delay]]
    /\ UNCHANGED <<rs, svc, cache, probe>>

\* sleep(delay) is over: the next attempt of execute fetches again.
PrepareWake(w) ==
    /\ wf[w].pc = "prep_sleep"
    /\ wf[w].remaining = 0
    /\ LET s == RetryStrategyNew(svc.defaultRetryOptions) IN
       wf' = [wf EXCEPT ![w] =
                IF LoopContinues(wf[w].attempt + 1, s.maxAttempts)
                THEN [@ EXCEPT !.pc = "prep_fetch", !.attempt = @ + 1,
                               !.delay = NextDelay(wf[w].delay, s),
                               !.prepCalls = @ + 1]
                ELSE Fail(w, FDCRetryError(s.maxAttempts, wf[w].lastError))]
    /\ UNCHANGED <<rs, svc, cache, probe>>

\* A rejection inside submitAttestationRequest is not caught: it leaves
\* executeAttestationWorkflow, which awaits the call outside any retry.
SubmitRejectedRetried(w, e) ==
    [wf[w] EXCEPT !.pc = "sub_fee", !.submitCalls = @ + 1]

SubmitRejectedUndone(w, e) == [Fail(w, e) EXCEPT !.txCount = 0]

SubmitRejected(w, e) == Fail(w, e)

\* submitAttestationRequest: the reads up to getRequestFee return or one throws;
\* on success fdcHub.requestAttestation is sent.
SubmitFeeRead(w) ==
    /\ wf[w].pc = "sub_fee"
    /\ \E ok \in BOOLEAN :
        wf' = [wf EXCEPT ![w] =
                 IF ok THEN [@ EXCEPT !.pc = "sub_tx", !.txCount = @ + 1]
                 ELSE SubmitRejected(w, CollaboratorError("getRequestFee"))]
    /\ UNCHANGED <<rs, svc, cache, probe>>

\* fdcHub.requestAttestation resolves with a receipt or rejects.
SubmitTransaction(w) ==
    /\ wf[w].pc = "sub_tx"
    /\ \E ok \in BOOLEAN :
        wf' = [wf EXCEPT ![w] =
                 IF ok THEN [@ EXCEPT !.pc = "sub_reads"]
                 ELSE SubmitRejected(w, CollaboratorError("requestAttestation"))]
    /\ UNCHANGED <<rs, svc, cache, probe>>

\* getBlock and the protocol parameters are read (or one read throws) and the
\* RoundInfo is returned to executeAttestationWorkflow, which calls retrieveProof.
SubmitReads(w) ==
    /\ wf[w].pc = "sub_reads"
    /\ \E ok \in BOOLEAN, ts \in BlockTimestamps, pp \in ProtocolParameters :
        wf' = [wf EXCEPT ![w] =
                 IF ok
                 THEN [@ EXCEPT !.pc = "ret_lookup",
                                !.roundInfo =
                                    [roundId |-> RoundIdOf(ts, pp.firstVotingRoundStartTs,
                                                           pp.votingEpochDurationSeconds),
                                     blockTimestamp |-> ts]]
                 ELSE SubmitRejected(w, CollaboratorError("getBlock"))]
    /\ UNCHANGED <<rs, svc, cache, probe>>

(***************************************************************************)
(* retrieveProof and waitForRoundFinalization                              *)
(***************************************************************************)

CacheKeyOf(w) == generateKey(wf[w].prepared.abiEncodedRequest, wf[w].roundInfo.roundId)

\* pollingOptions.maxWaitTimeMs && elapsed > pollingOptions.maxWaitTimeMs
DeadlineExceededInSeconds(elapsed, maxWaitTimeMs) ==
    maxWaitTimeMs # 0 /\ elapsed > maxWaitTimeMs \div 1000

DeadlineExceededWithoutLimit(elapsed, maxWaitTimeMs) == elapsed > maxWaitTimeMs

DeadlineExceeded(elapsed, maxWaitTimeMs) ==
    maxWaitTimeMs # 0 /\ elapsed > maxWaitTimeMs

\* consecutiveChecks++ and the adaptive interval; the counter is kept exact up
\* to the one threshold it is compared with.
NextConsecutiveChecks(n) == Min(n + 1, AdaptAfterChecks + 1)

\* if (consecutiveChecks > 5 && checkInterval < 60000)
\*     checkInterval = Math.min(checkInterval * 1.5, 60000)
NextCheckInterval(consecutiveChecks, checkInterval) ==
    IF consecutiveChecks > AdaptAfterChecks /\ checkInterval < MaxCheckIntervalMs
    THEN Min((checkInterval * 3) \div 2, MaxCheckIntervalMs)
    ELSE checkInterval

\* if (data.response_hex): the body is taken as the proof
IsProof(answer) == answer.ok /\ answer.data.response_hex # ""

\* The cache check at the head of retrieveProof.
RetrieveLookup(w) ==
    /\ wf[w].pc = "ret_lookup"
    /\ IF svc.caching
       THEN LET got == ProofCacheGet(cache, svc.ttl, CacheKeyOf(w)) IN
            /\ cache' = got.cache
            /\ wf' = [wf EXCEPT ![w] =
                        IF got.result # Null
                        THEN [@ EXCEPT !.pc = "COMPLETE", !.proof = got.result,
                                       !.proofFrom = "cache"]
                        ELSE [@ EXCEPT !.pc = "ret_config"]]
       ELSE /\ cache' = cache
            /\ wf' = [wf EXCEPT ![w].pc = "ret_config"]
    /\ UNCHANGED <<rs, svc, probe>>

\* getNetworkConfig resolves; the options are merged and
\* waitForRoundFinalization is called (it merges them again, to the same).
RetrieveConfig(w) ==
    /\ wf[w].pc = "ret_config"
    /\ LET m == MergeOptions(svc.defaultPollingOptions, wf[w].pollingOptions) IN
       wf' = [wf EXCEPT ![w] =
                [@ EXCEPT !.pc = "wait_init",
                          !.merged = MergeOptions(svc.defaultPollingOptions, m),
                          !.sinceCall = 0]]
    /\ UNCHANGED <<rs, svc, cache, probe>>

\* getRelay, getFdcVerification and fdcProtocolId resolved: startTime is taken
\* and the first relay.isFinalized is sent.
WaitStart(w) ==
    /\ wf[w].pc = "wait_init"
    /\ wf' = [wf EXCEPT ![w] =
                [@ EXCEPT !.pc = "wait_poll", !.elapsed = 0,
                          !.checkInterval = OrDefault(wf[w].merged.checkIntervalMs,
                                                      DefaultCheckIntervalMs),
                          !.consecutiveChecks = 0]]
    /\ UNCHANGED <<rs, svc, cache, probe>>

\* One iteration of the waiting loop after relay.isFinalized has answered:
\* the finalized test comes first, then the deadline test.
WaiterOutcomeDeadlineFirst(isFinalized, elapsed, maxWaitTimeMs) ==
    IF DeadlineExceeded(elapsed, maxWaitTimeMs) THEN "timeout"
    ELSE IF isFinalized THEN "return" ELSE "sleep"

WaiterOutcomeReturnsUnfinalized(isFinalized, elapsed, maxWaitTimeMs) == "return"

WaiterOutcome(isFinalized, elapsed, maxWaitTimeMs) ==
    IF isFinalized THEN "return"
    ELSE IF DeadlineExceeded(elapsed, maxWaitTimeMs) THEN "timeout" ELSE "sleep"

\* relay.isFinalized answers: one iteration of the waiting loop up to its sleep,
\* or the return into retrieveProof and its settle sleep.
OracleResponds(w) ==
    /\ wf[w].pc = "wait_poll"
    /\ \E answer \in OracleAnswers, progress \in ProgressOutcomes(wf[w].merged) :
        LET isFinalized == answer = "true"
            outcome == WaiterOutcome(isFinalized, wf[w].elapsed,
                                     wf[w].merged.maxWaitTimeMs)
            falses == IF isFinalized THEN wf[w].oracleFalses
                      ELSE Min(wf[w].oracleFalses + 1, MaxCountedMisses + 1)
        IN
        wf' = [wf EXCEPT ![w] =
          CASE answer = "throws" ->
                 [Fail(w, CollaboratorError("isFinalized")) EXCEPT !.answerThrew = TRUE]
            [] answer # "throws" /\ outcome = "timeout" ->
                 [FailTimeout(w, FDCTimeoutError(wf[w].merged.maxWaitTimeMs))
                    EXCEPT !.oracleFalses = falses, !.finalized = isFinalized]
            [] answer # "throws" /\ outcome # "timeout" /\ progress = "throws" ->
                 [Fail(w, ProgressError)
                    EXCEPT !.oracleFalses = falses, !.finalized = isFinalized]
            [] answer # "throws" /\ outcome = "return" /\ progress # "throws" ->
                 [NoLocals(@) EXCEPT !.pc = "settle", !.finalized = isFinalized,
                                     !.elapsed = wf[w].elapsed,
                                     !.remaining = SettleDelayMs]
            [] OTHER ->
                 LET n == NextConsecutiveChecks(wf[w].consecutiveChecks)
                     i == NextCheckInterval(n, wf[w].checkInterval)
                 IN [@ EXCEPT !.pc = "wait_sleep", !.oracleFalses = falses,
                              !.consecutiveChecks = n, !.checkInterval = i,
                              !.remaining = i]]
    /\ UNCHANGED <<rs, svc, cache, probe>>

\* sleep(checkInterval) is over: the next relay.isFinalized is sent.
WaitWake(w) ==
    /\ wf[w].pc = "wait_sleep"
    /\ wf[w].remaining = 0
    /\ wf' = [wf EXCEPT ![w].pc = "wait_poll"]
    /\ UNCHANGED <<rs, svc, cache, probe>>

\* const startTime = Date.now() of the proof-polling loop: its elapsed time
\* starts at 0 whatever the waiter's was.
PollingElapsedAtStartShared(waiterElapsed) == waiterElapsed

PollingElapsedAtStart(waiterElapsed) == 0

\* sleep(10000) is over: startTime is taken and the first proof fetch is sent.
SettleWake(w) ==
    /\ wf[w].pc = "settle"
    /\ wf[w].remaining = 0
    /\ wf' = [wf EXCEPT ![w] =
                [@ EXCEPT !.pc = "proof_poll",
                          !.elapsed = PollingElapsedAtStart(wf[w].elapsed),
                          !.sinceFinalized = 0, !.sincePolling = 0]]
    /\ UNCHANGED <<rs, svc, cache, probe>>

\* The proof service answers: the proof is cached and returned, or one
\* iteration of the polling loop runs up to its sleep.
ProofServiceResponds(w) ==
    /\ wf[w].pc = "proof_poll"
    /\ \E answer \in DAAnswers(wf[w].prepared.abiEncodedRequest, wf[w].roundInfo.roundId),
          progress \in ProgressOutcomes(wf[w].merged) :
        IF DAThrows(answer)
        THEN /\ wf' = [wf EXCEPT ![w] =
                        [Fail(w, CollaboratorError(answer.rejects))
                            EXCEPT !.answerThrew = TRUE]]
             /\ cache' = cache
        ELSE IF IsProof(answer)
        THEN /\ wf' = [wf EXCEPT ![w] =
                        [NoLocals(@) EXCEPT !.pc = "COMPLETE", !.proof = answer.data,
                                            !.proofFrom = "service"]]
             /\ cache' = IF svc.caching
                         THEN ProofCacheSet(cache, CacheKeyOf(w), answer.data)
                         ELSE cache
        ELSE /\ wf' = [wf EXCEPT ![w] =
                        IF DeadlineExceeded(wf[w].elapsed, wf[w].merged.maxWaitTimeMs)
                        THEN [FailTimeout(w, FDCTimeoutError(wf[w].merged.maxWaitTimeMs))
                                EXCEPT !.proofMisses = Min(@ + 1, MaxCountedMisses),
                                       !.answerThrew = answer.rejects # ""]
                        ELSE IF progress = "throws"
                        THEN [Fail(w, ProgressError)
                                EXCEPT !.proofMisses = Min(@ + 1, MaxCountedMisses),
                                       !.answerThrew = answer.rejects # ""]
                        ELSE [@ EXCEPT !.pc = "proof_sleep",
                                       !.answerThrew = answer.rejects # "",
                                       !.proofMisses = Min(@ + 1, MaxCountedMisses),
                                       !.remaining =
                                           OrDefault(wf[w].merged.checkIntervalMs,
                                                     svc.proofGenerationCheckIntervalMs)]]
             /\ cache' = cache
    /\ UNCHANGED <<rs, svc, probe>>

\* sleep(checkIntervalMs || proofGenerationCheckIntervalMs) is over.
ProofWake(w) ==
    /\ wf[w].pc = "proof_sleep"
    /\ wf[w].remaining = 0
    /\ wf' = [wf EXCEPT ![w].pc = "proof_poll"]
    /\ UNCHANGED <<rs, svc, cache, probe>>

(***************************************************************************)
(* Time                                                                    *)
(***************************************************************************)

\* Amounts by which the wall clock is seen to move on between two steps.
TickSteps == {10000}

Polling(pc) == pc \in {"wait_poll", "wait_sleep", "proof_poll", "proof_sleep"}

Waiting(pc) == pc \in {"wait_init", "wait_poll", "wait_sleep"}

\* sleep(checkInterval) of the waiting loop, sleep(checkIntervalMs ||
\* proofGenerationCheckIntervalMs) of the proof loop: one polling tick.
PollingTick(r) ==
    IF Waiting(r.pc) THEN r.checkInterval
    ELSE IF r.pc \in {"proof_poll", "proof_sleep"}
    THEN OrDefault(r.merged.checkIntervalMs, svc.proofGenerationCheckIntervalMs)
    ELSE 0

Later(w, d) ==
    IF wf[w].pc = "unused" THEN wf[w]
    ELSE [wf[w] EXCEPT
            !.sinceAbort = IF @ < 0 \/ ~Polling(wf[w].pc) THEN @
                           ELSE Clamp(@ + d, PollingTick(wf[w])),
            !.remaining = Max(0, @ - d),
            !.sinceFinalized = IF wf[w].pc = "settle"
                               THEN Min(@ + d, SettleDelayMs) ELSE @,
            !.elapsed = IF Polling(wf[w].pc)
                        THEN Clamp(@ + d, wf[w].merged.maxWaitTimeMs) ELSE @,
            !.sinceCall = IF Waiting(wf[w].pc)
                          THEN Clamp(@ + d, wf[w].merged.maxWaitTimeMs) ELSE @,
            !.sincePolling = IF wf[w].pc \in {"proof_poll", "proof_sleep"}
                             THEN Clamp(@ + d, wf[w].merged.maxWaitTimeMs) ELSE @]

Tick ==
    /\ \E d \in TickSteps :
        /\ wf' = [w \in WorkflowIds |-> Later(w, d)]
        /\ cache' = AgedCache(cache, svc.ttl, d)
    /\ UNCHANGED <<rs, svc, probe>>

\* The caller of executeAttestationWorkflow gives up on a pending call. The
\* call took no signal and no step of the service reads one: nothing but the
\* caller's own clock starts.
Abort(w) ==
    /\ Running(w)
    /\ wf[w].sinceAbort < 0
    /\ wf' = [wf EXCEPT ![w].sinceAbort = 0]
    /\ UNCHANGED <<rs, svc, cache, probe>>

(***************************************************************************)
(* A direct caller of ProofCache: get, set, clear at any moment            *)
(***************************************************************************)

Fingerprints == EncodedRequests \X {5, 6}

KeyOf(f) == generateKey(f[1], f[2])

ProofRecords ==
    UNION {{DAFullProof(f[1], f[2]), DAPartialProof(f[1], f[2])} : f \in Fingerprints}

\* What the caller knows: the record last set under each fingerprint (Null when
\* none, or cleared since), the time since that set, and the fingerprints for
\* which a get has reported an expired entry with no set since.
ProbeStart ==
    [op |-> "none", f |-> <<<<>>, 0>>, result |-> Null, again |-> FALSE,
     lastSet |-> [f \in Fingerprints |-> Null],
     sinceSet |-> [f \in Fingerprints |-> 0],
     dead |-> {},
     replaced |-> Null]     \* of the entry the last set replaced

NoProbe == [op |-> "unused"]

CacheSetCall ==
    /\ probe.op # "unused"
    /\ \E f \in Fingerprints, r \in ProofRecords :
        /\ cache' = ProofCacheSet(cache, KeyOf(f), r)
        /\ probe' = [probe EXCEPT !.op = "set", !.f = f, !.result = Null,
                                  !.again = FALSE,
                                  !.lastSet[f] = r, !.sinceSet[f] = 0,
                                  !.replaced =
                                      IF KeyOf(f) \in DOMAIN cache
                                      THEN [f |-> f, age |-> cache[KeyOf(f)].age,
                                            other |-> cache[KeyOf(f)].data # r]
                                      ELSE Null,
                                  !.dead = @ \ {f}]
    /\ UNCHANGED <<rs, svc, wf>>

CacheGetCall ==
    /\ probe.op # "unused"
    /\ \E f \in Fingerprints :
        LET got == ProofCacheGet(cache, svc.ttl, KeyOf(f))
            expired == probe.lastSet[f] # Null /\ probe.sinceSet[f] > svc.ttl
        IN
        /\ cache' = got.cache
        /\ probe' = [probe EXCEPT !.op = "get", !.f = f, !.result = got.result,
                                  !.again = f \in probe.dead,
                                  !.dead = IF expired THEN @ \cup {f} ELSE @]
    /\ UNCHANGED <<rs, svc, wf>>

CacheClearCall ==
    /\ probe.op # "unused"
    /\ cache' = ProofCacheClear(cache)
    /\ probe' = [probe EXCEPT !.op = "clear", !.result = Null, !.again = FALSE,
                              !.replaced = Null,
                              !.lastSet = [f \in Fingerprints |-> Null]]
    /\ UNCHANGED <<rs, svc, wf>>

\* Time passes between two calls of the caller.
CacheClock ==
    /\ probe.op # "unused"
    /\ \E d \in TickSteps :
        /\ cache' = AgedCache(cache, svc.ttl, d)
        /\ probe' = [probe EXCEPT !.op = "tick",
                        !.sinceSet = [f \in Fingerprints |-> Clamp(@[f] + d, svc.ttl)]]
    /\ UNCHANGED <<rs, svc, wf>>

(***************************************************************************)
(* Submissions along the chain: the RoundInfo of successive blocks         *)
(***************************************************************************)

\* Blocks are looked at up to this many seconds after the first voting round.
MaxBlockAge == 200

\* Seconds between one block read and the next.
BlockSteps == {45, 90}

ChainParameters ==
    {[firstVotingRoundStartTs |-> f, votingEpochDurationSeconds |-> d] :
        f \in {0, 100}, d \in {1, 30, 90}}

\* roundId = Number((blockTimestamp - firstVotingRoundStartTs) /
\* votingEpochDurationSeconds); return { roundId, blockNumber, blockTimestamp, .. }
RoundInfoOf(blockTimestamp, pp) ==
    [roundId |-> RoundIdOf(blockTimestamp, pp.firstVotingRoundStartTs,
                           pp.votingEpochDurationSeconds),
     blockTimestamp |-> blockTimestamp]

\* The chain whose voting rounds began at firstVotingRoundStartTs; its head
\* block carries the time `now`.
ChainStart(pp, age) ==
    [op |-> "chain", pp |-> pp, now |-> pp.firstVotingRoundStartTs + age,
     roundInfo |-> Null, earlier |-> Null]

\* A block is mined: block timestamps never decrease.
ChainBlock ==
    /\ probe.op = "chain"
    /\ \E d \in BlockSteps :
        /\ probe.now + d <= probe.pp.firstVotingRoundStartTs + MaxBlockAge
        /\ probe' = [probe EXCEPT !.now = @ + d]
    /\ UNCHANGED <<rs, svc, cache, wf>>

\* submitAttestationRequest from the receipt on: the transaction is in the
\* head block, whose timestamp and the protocol parameters give the RoundInfo.
ChainSubmit ==
    /\ probe.op = "chain"
    /\ probe' = [probe EXCEPT !.roundInfo = RoundInfoOf(probe.now, probe.pp),
                              !.earlier = probe.roundInfo]
    /\ UNCHANGED <<rs, svc, cache, wf>>

(***************************************************************************)
(* AttestationRequestBuilder                                               *)
(***************************************************************************)

\* A string argument, and an object argument with its members in order.
Str(s) == [str |-> s]

Obj(members) == [obj |-> members]

RECURSIVE JSONMembers(_)
JSONMembers(members) ==
    IF members = <<>> THEN ""
    ELSE "\"" \o members[1][1] \o "\":\"" \o members[1][2] \o "\""
         \o (IF Len(members) > 1 THEN "," ELSE "") \o JSONMembers(Tail(members))

\* JSON.stringify of a flat object of strings
JSONStringify(members) == "{" \o JSONMembers(members) \o "}"

\* typeof x === "string" ? x : JSON.stringify(x)
AsJsonString(x) == IF "str" \in DOMAIN x THEN x ELSE Str(JSONStringify(x.obj))

\* !x of a string that may be undefined
Falsy(x) == x = Null \/ x.str = ""

\* x || d
OrElse(x, d) == IF Falsy(x) THEN d ELSE x.str

ParamFields ==
    {"apiUrl", "postProcessJq", "abiSignature", "httpMethod", "headers",
     "queryParams", "body"}

\* new AttestationRequestBuilder(): params = {}, Web2Json, PublicWeb2
BuilderNew ==
    [params |-> [f \in ParamFields |-> Null],
     attestationType |-> "Web2Json", sourceId |-> "PublicWeb2"]

\* url, jqFilter, abiSignature, method: this.params.<field> = <argument>
BuilderSet(b, field, x) == [b EXCEPT !.params[field] = x]

\* headers, queryParams, body
BuilderSetJson(b, field, x) == [b EXCEPT !.params[field] = AsJsonString(x)]

BuilderThrows(message) == [threw |-> message]

\* build(): the three checks in their order, then the object returned.
BuilderBuild(b) ==
    IF Falsy(b.params.apiUrl) THEN BuilderThrows("API URL is required")
    ELSE IF Falsy(b.params.postProcessJq) THEN BuilderThrows("JQ filter is required")
    ELSE IF Falsy(b.params.abiSignature) THEN BuilderThrows("ABI signature is required")
    ELSE [params |-> [apiUrl |-> b.params.apiUrl.str,
                      postProcessJq |-> b.params.postProcessJq.str,
                      abiSignature |-> b.params.abiSignature.str,
                      httpMethod |-> OrElse(b.params.httpMethod, "GET"),
                      headers |-> OrElse(b.params.headers, "{}"),
                      queryParams |-> OrElse(b.params.queryParams, "{}"),
                      body |-> OrElse(b.params.body, "{}")],
          attestationType |-> b.attestationType,
          sourceId |-> b.sourceId]

\* reset()
BuilderResetKeepsParams(b) ==
    [b EXCEPT !.attestationType = "Web2Json", !.sourceId = "PublicWeb2"]

BuilderReset(b) == BuilderNew

\* Arguments the scripts pass to the setters.
UrlArguments == {Str(""), Str("https://api")}

JqArguments == {Str(""), Str(".")}

AbiArguments == {Str(""), Str("tuple")}

MethodArguments == {Str(""), Str("POST")}

HeadersArguments ==
    {Str(""), Str("{\"a\":\"b\"}"), Obj(<<>>), Obj(<<<<"Authorization", "Bearer token">>>>)}

QueryParamsArguments == {Str(""), Obj(<<<<"q", "1">>, <<"r", "2">>>>)}

BodyArguments == {Str(""), Str("{\"x\":\"y\"}")}

AttestationTypes == {"Web2Json", "PaymentVerification"}

SourceIds == {"PublicWeb2"}

\* The builder, what its caller passed to each setter since the builder was
\* new or reset (`said`), whether it was ever reset, and what the last call of
\* build() gave.
CallerStart ==
    [op |-> "new", builder |-> BuilderNew, result |-> Null,
     said |-> [f \in ParamFields |-> Null],
     saidType |-> Null, saidSource |-> Null, wasReset |-> FALSE]

Said(field, x) ==
    [probe EXCEPT !.op = "setter", !.result = Null, !.said[field] = x]

Builder == "builder" \in DOMAIN probe

CallUrl ==
    /\ Builder
    /\ \E x \in UrlArguments :
        probe' = [Said("apiUrl", x) EXCEPT
                    !.builder = BuilderSet(probe.builder, "apiUrl", x)]
    /\ UNCHANGED <<rs, svc, cache, wf>>

CallJqFilter ==
    /\ Builder
    /\ \E x \in JqArguments :
        probe' = [Said("postProcessJq", x) EXCEPT
                    !.builder = BuilderSet(probe.builder, "postProcessJq", x)]
    /\ UNCHANGED <<rs, svc, cache, wf>>

CallAbiSignature ==
    /\ Builder
    /\ \E x \in AbiArguments :
        probe' = [Said("abiSignature", x) EXCEPT
                    !.builder = BuilderSet(probe.builder, "abiSignature", x)]
    /\ UNCHANGED <<rs, svc, cache, wf>>

CallMethod ==
    /\ Builder
    /\ \E x \in MethodArguments :
        probe' = [Said("httpMethod", x) EXCEPT
                    !.builder = BuilderSet(probe.builder, "httpMethod", x)]
    /\ UNCHANGED <<rs, svc, cache, wf>>

CallHeaders ==
    /\ Builder
    /\ \E x \in HeadersArguments :
        probe' = [Said("headers", x) EXCEPT
                    !.builder = BuilderSetJson(probe.builder, "headers", x)]
    /\ UNCHANGED <<rs, svc, cache, wf>>

CallQueryParams ==
    /\ Builder
    /\ \E x \in QueryParamsArguments :
        probe' = [Said("queryParams", x) EXCEPT
                    !.builder = BuilderSetJson(probe.builder, "queryParams", x)]
    /\ UNCHANGED <<rs, svc, cache, wf>>

CallBody ==
    /\ Builder
    /\ \E x \in BodyArguments :
        probe' = [Said("body", x) EXCEPT
                    !.builder = BuilderSetJson(probe.builder, "body", x)]
    /\ UNCHANGED <<rs, svc, cache, wf>>

CallType ==
    /\ Builder
    /\ \E t \in AttestationTypes :
        probe' = [probe EXCEPT !.op = "setter", !.result = Null, !.saidType = Str(t),
                               !.builder.attestationType = t]
    /\ UNCHANGED <<rs, svc, cache, wf>>

CallSource ==
    /\ Builder
    /\ \E s \in SourceIds :
        probe' = [probe EXCEPT !.op = "setter", !.result = Null, !.saidSource = Str(s),
                               !.builder.sourceId = s]
    /\ UNCHANGED <<rs, svc, cache, wf>>

CallBuild ==
    /\ Builder
    /\ probe' = [probe EXCEPT !.op = "build", !.result = BuilderBuild(probe.builder)]
    /\ UNCHANGED <<rs, svc, cache, wf>>

CallReset ==
    /\ Builder
    /\ probe' = [CallerStart EXCEPT !.op = "reset", !.wasReset = TRUE,
                                    !.builder = BuilderReset(probe.builder)]
    /\ UNCHANGED <<rs, svc, cache, wf>>

(***************************************************************************)
(* Specifications                                                          *)
(***************************************************************************)

FDCConfigChoices ==
    [verifierApiKey : {""},
     requestRetryAttempts : {2},
     requestRetryDelayMs : {20000},
     roundFinalizationCheckIntervalMs : {30000},
     proofGenerationCheckIntervalMs : {10000},
     maxRoundFinalizationWaitMs : {40000},
     enableProofCache : {FALSE},
     proofCacheTtlMs : {20000}]

NoRetryOptions ==
    [maxAttempts |-> 0, initialDelayMs |-> 0, maxDelayMs |-> 0, backoffMultiplier |-> 0]

\* FDCServiceOptions of the callers: caching on or off, the retry and polling
\* defaults given or left to the configuration.  A defaultPollingOptions object
\* holding only onProgress is how the scripts of the repository build the service.
ServiceOptionChoices ==
    {[given |-> g, enableCaching |-> c, cacheTtlMs |-> t,
      defaultRetryOptions |-> r, defaultPollingOptions |-> p] :
        g \in SUBSET {"enableCaching", "defaultRetryOptions", "defaultPollingOptions"},
        c \in BOOLEAN, t \in {0, 10000},
        r \in {[NoRetryOptions EXCEPT !.maxAttempts = 1, !.initialDelayMs = 10000]},
        p \in {PollingOptionsOf({"onProgress"}, 0, 0),
               PollingOptionsOf({"checkIntervalMs", "maxWaitTimeMs"}, 10000, 20000)}}

\* Two workflows of one service, started together.  The service is built as the
\* scripts of the repository build it: caching on, defaultPollingOptions holding
\* onProgress only, the retry options left to the configuration.
TwoWorkflowServices ==
    {FDCServiceNew(o, c) : o \in {x \in ServiceOptionChoices :
                                     /\ x.given = {"enableCaching", "defaultPollingOptions"}
                                     /\ x.enableCaching
                                     /\ x.cacheTtlMs # 0
                                     /\ x.defaultPollingOptions.keys = {"onProgress"}},
                           c \in FDCConfigChoices}

CallOptionChoices ==
    {NoPollingOptions, PollingOptionsOf({"maxWaitTimeMs"}, 0, 0),
     PollingOptionsOf({"checkIntervalMs", "maxWaitTimeMs"}, 20000, 30000),
     PollingOptionsOf({"checkIntervalMs", "maxWaitTimeMs"}, 90000, 0)}

InitTwo ==
    /\ rs = RsIdle
    /\ svc \in TwoWorkflowServices
    /\ cache = EmptyCache
    /\ wf = [w \in WorkflowIds |-> WfStart(ValidParams, NoPollingOptions)]
    /\ probe = NoProbe

\* One workflow, every construction of the service, every per-call option.
Init ==
    /\ rs = RsIdle
    /\ svc \in {FDCServiceNew(o, c) : o \in ServiceOptionChoices, c \in FDCConfigChoices}
    /\ cache = EmptyCache
    /\ \E pr \in RequestParamChoices, po \in CallOptionChoices :
        wf = [w \in WorkflowIds |-> IF w = "w1" THEN WfStart(pr, po) ELSE Unused]
    /\ probe = NoProbe

InitRetry ==
    /\ rs \in {RsInit(o, k, m) : o \in RetryOptionChoices, k \in FailScripts,
                                 m \in OnRetryModes}
    /\ svc = NoService
    /\ cache = EmptyCache
    /\ wf = [w \in WorkflowIds |-> Unused]
    /\ probe = NoProbe

InitChain ==
    /\ rs = RsIdle
    /\ svc = NoService
    /\ cache = EmptyCache
    /\ wf = [w \in WorkflowIds |-> Unused]
    /\ probe \in {ChainStart(pp, age) : pp \in ChainParameters, age \in {0, 44}}

InitBuilder ==
    /\ rs = RsIdle
    /\ svc = NoService
    /\ cache = EmptyCache
    /\ wf = [w \in WorkflowIds |-> Unused]
    /\ probe = CallerStart

\* The cache as earlier calls of the service left it: empty, or holding the
\* proofs of both rounds, each just stored or past the ttl.
WarmCaches(ttl) ==
    {EmptyCache} \cup
    {[k \in {KeyOf(f) : f \in Fingerprints} |->
        [data |-> DAFullProof(DeadRequest, IF k = KeyOf(<<DeadRequest, 5>>) THEN 5 ELSE 6),
         age |-> IF k = KeyOf(<<DeadRequest, 5>>) THEN a ELSE b]] :
        a \in {0, ttl + 1}, b \in {0, ttl + 1}}

\* One workflow on a caching service that has served calls before.
InitWarm ==
    /\ rs = RsIdle
    /\ svc \in {s \in {FDCServiceNew(o, c) : o \in ServiceOptionChoices,
                                             c \in FDCConfigChoices} : s.caching}
    /\ cache \in WarmCaches(svc.ttl)
    /\ \E po \in CallOptionChoices :
        wf = [w \in WorkflowIds |-> IF w = "w1" THEN WfStart(ValidParams, po) ELSE Unused]
    /\ probe = NoProbe

InitCache ==
    /\ rs = RsIdle
    /\ svc \in {FDCServiceNew(o, c) : o \in {x \in ServiceOptionChoices :
                                               x.given = {"enableCaching"} /\ x.enableCaching},
                                      c \in FDCConfigChoices}
    /\ cache = EmptyCache
    /\ wf = [w \in WorkflowIds |-> Unused]
    /\ probe = ProbeStart

WorkflowStep(w) ==
    \/ PrepareStart(w)
    \/ PreparerResponds(w)
    \/ PrepareWake(w)
    \/ SubmitFeeRead(w)
    \/ SubmitTransaction(w)
    \/ SubmitReads(w)
    \/ RetrieveLookup(w)
    \/ RetrieveConfig(w)
    \/ WaitStart(w)
    \/ OracleResponds(w)
    \/ WaitWake(w)
    \/ SettleWake(w)
    \/ ProofServiceResponds(w)
    \/ ProofWake(w)

Next == (\E w \in WorkflowIds : WorkflowStep(w)) \/ Tick

NextAbort == Next \/ \E w \in WorkflowIds : Abort(w)

NextChain == ChainBlock \/ ChainSubmit

NextBuilder ==
    \/ CallUrl \/ CallJqFilter \/ CallAbiSignature \/ CallMethod \/ CallHeaders
    \/ CallQueryParams \/ CallBody \/ CallType \/ CallSource \/ CallBuild \/ CallReset

NextRetry == RetryCall \/ RetryOperationSucceeds \/ RetryOperationFails \/ RetryWake

NextCache == CacheSetCall \/ CacheGetCall \/ CacheClearCall \/ CacheClock

\* One executeAttestationWorkflow call.
Spec == Init /\ [][Next]_vars

\* The same under the scheduling the runtime gives: a pending await is
\* resumed once what it waits for has settled, and the wall clock moves on.
SpecFair ==
    /\ Spec
    /\ WF_vars(Tick)
    /\ \A w \in WorkflowIds : WF_vars(WorkflowStep(w))

\* Two concurrent executeAttestationWorkflow calls on one caching service.
SpecTwo == InitTwo /\ [][Next]_vars

\* One workflow whose caller may give up at any moment.
SpecAbort == Init /\ [][NextAbort]_vars

SpecChain == InitChain /\ [][NextChain]_vars

SpecBuilder == InitBuilder /\ [][NextBuilder]_vars

SpecWarm == InitWarm /\ [][Next]_vars

SpecRetry == InitRetry /\ [][NextRetry]_vars

SpecCache == InitCache /\ [][NextCache]_vars

(***************************************************************************)
(* Properties                                                              *)
(***************************************************************************)

Started(w) == wf[w].pc # "unused"

Terminal(pc) == pc \in {"COMPLETE", "FAILED"}

SubmitErrorCodes == {"getRequestFee", "requestAttestation", "getBlock"}

\* C1: in every execution of executeAttestationWorkflow, submitAttestationRequest
\* is invoked at most once, and exactly once when preparation has succeeded (not
\* at all before); fdcHub.requestAttestation is sent at most once; and when a
\* call inside the submission rejects, the workflow has failed with that very
\* error after one single submission, without a RoundInfo.
SubmitAtMostOnce ==
    \A w \in WorkflowIds : Started(w) =>
        /\ wf[w].submitCalls <= 1
        /\ wf[w].txCount <= wf[w].submitCalls
        /\ (wf[w].prepared # Null <=> wf[w].submitCalls = 1)
        /\ (Phase(wf[w].pc) \in {"AWAITING_PROOF", "COMPLETE"} => wf[w].txCount = 1)
        /\ (wf[w].error.code \in SubmitErrorCodes =>
                /\ wf[w].pc = "FAILED"
                /\ wf[w].submitCalls = 1
                /\ wf[w].roundInfo = Null
                /\ wf[w].proof = Null)

\* The ledger rejected the transaction of a workflow whose preparation had to
\* be retried first.
SubmitFailedOnce ==
    \E w \in WorkflowIds :
        /\ wf[w].pc = "FAILED"
        /\ wf[w].error = CollaboratorError("requestAttestation")
        /\ wf[w].prepCalls = 2
        /\ wf[w].txCount = 1

PhaseSteps ==
    {<<"PREPARING", "SUBMITTING">>, <<"SUBMITTING", "AWAITING_PROOF">>,
     <<"AWAITING_PROOF", "COMPLETE">>,
     <<"PREPARING", "FAILED">>, <<"SUBMITTING", "FAILED">>,
     <<"AWAITING_PROOF", "FAILED">>}

\* C2: a workflow moves only along PREPARING -> SUBMITTING -> AWAITING_PROOF ->
\* COMPLETE, or from one of these phases to FAILED; it is in SUBMITTING or
\* beyond only with a prepared request whose status is VALID, in AWAITING_PROOF
\* or COMPLETE only with the RoundInfo of the submission; and once COMPLETE or
\* FAILED nothing of it changes any more (no collaborator is called again).
PhaseOrder ==
    [][\A w \in WorkflowIds : Started(w) =>
        LET p == Phase(wf[w].pc)
            q == Phase(wf'[w].pc)
        IN
        /\ p = q \/ <<p, q>> \in PhaseSteps
        /\ q \in {"SUBMITTING", "AWAITING_PROOF", "COMPLETE"} =>
                /\ wf'[w].prepared # Null
                /\ wf'[w].prepared.status = "VALID"
                /\ wf'[w].prepared.abiEncodedRequest \in EncodedRequests
        /\ q \in {"AWAITING_PROOF", "COMPLETE"} => wf'[w].roundInfo # Null
        /\ Terminal(wf[w].pc) => wf'[w] = wf[w]
      ]_vars

\* A workflow went through every phase and fetched its proof from the service.
WorkflowCompleted ==
    \E w \in WorkflowIds :
        wf[w].pc = "COMPLETE" /\ wf[w].proofFrom = "service" /\ wf[w].prepCalls = 2

NoCallbackThrew == rs.error # CallbackError

\* C3: when the operation fails exactly k times and then succeeds, with
\* k < maxAttempts (maxAttempts >= 1, the onRetry callback absent or returning),
\* execute has called it exactly k+1 times and returned its value; no
\* RetryExhausted is raised.
RetryConvergence ==
    (rs.pc = "done" /\ rs.failsBefore < rs.strategy.maxAttempts /\ NoCallbackThrew) =>
        /\ rs.strategy.maxAttempts >= 1
        /\ rs.calls = rs.failsBefore + 1
        /\ rs.outcome = "returned"
        /\ rs.value = SuccessValue
        /\ rs.error = NoError

\* Two failures, then success on the third and last attempt allowed.
ConvergedOnLastAttempt ==
    /\ rs.pc = "done"
    /\ rs.failsBefore = 2
    /\ rs.strategy.maxAttempts = 3
    /\ rs.outcome = "returned"

\* C4: when the operation fails on every call, execute has called it exactly
\* maxAttempts times and throws FDCRetryError (code RETRY_EXHAUSTED) whose
\* attempts is maxAttempts and whose originalError is the error thrown by the
\* last call (maxAttempts being the field of the strategy; the onRetry callback
\* absent or returning).
RetryExhaustion ==
    (rs.pc = "done" /\ rs.failsBefore >= rs.strategy.maxAttempts /\ NoCallbackThrew) =>
        /\ rs.calls = rs.strategy.maxAttempts
        /\ rs.outcome = "threw"
        /\ rs.error = [name |-> "FDCRetryError", code |-> "RETRY_EXHAUSTED",
                       attempts |-> rs.strategy.maxAttempts,
                       originalError |-> OpError(rs.strategy.maxAttempts)]

\* Three attempts were configured and all three calls failed.
ExhaustedAfterThree ==
    /\ rs.pc = "done"
    /\ rs.strategy.maxAttempts = 3
    /\ rs.calls = 3
    /\ rs.error.code = "RETRY_EXHAUSTED"
    /\ Len(rs.slept) = 2

AllTerminated == \A w \in WorkflowIds : ~Running(w)

\* The maxWaitTimeMs in force for the polling loops of workflow w.
EffectiveMaxWait(w) ==
    MergeOptions(svc.defaultPollingOptions, wf[w].pollingOptions).maxWaitTimeMs

\* C5: a deadline bounds every polling loop: whatever the configuration of the
\* service and the PollingOptions of the call, and whatever the oracle and the
\* proof service answer, waitForRoundFinalization and retrieveProof terminate
\* (every collaborator call returning, every timer firing).
PollingTerminates == <>AllTerminated

\* The same for the calls that have a maxWaitTimeMs in force: these do terminate.
PollingTerminatesUnderDeadline ==
    (\A w \in WorkflowIds : Started(w) => EffectiveMaxWait(w) # 0) => <>AllTerminated

TimedOut(w) == wf[w].pc = "FAILED" /\ wf[w].error.name = "FDCTimeoutError"

\* C6: the finalization wait fails with Timeout only when more than
\* maxWaitTimeMs = T has elapsed since startTime, hence at least T since the
\* waiter was called, never before; and the error carries T.
TimeoutBoundary ==
    \A w \in WorkflowIds : (Started(w) /\ TimedOut(w) /\ ~wf[w].finalized) =>
        /\ wf[w].merged.maxWaitTimeMs > 0
        /\ wf[w].error.timeoutMs = wf[w].merged.maxWaitTimeMs
        /\ wf[w].elapsed > wf[w].merged.maxWaitTimeMs
        /\ wf[w].sinceCall >= wf[w].elapsed

\* The waiter timed out after the oracle had answered "not finalized" at least
\* three times: the answers at elapsed <= T did not end the wait.
WaiterTimedOut ==
    \E w \in WorkflowIds :
        /\ TimedOut(w) /\ ~wf[w].finalized
        /\ wf[w].merged.maxWaitTimeMs = 20000
        /\ wf[w].oracleFalses = 3

\* C7: a get issued right after set(F, R) returns R; a get issued once the TTL
\* has elapsed since the set returns absent and removes the entry; and every
\* later get of F, as long as F is not set again, returns absent.
CacheCorrectness ==
    probe.op = "get" =>
        LET f == probe.f IN
        /\ (probe.lastSet[f] # Null /\ probe.sinceSet[f] = 0) =>
                probe.result = probe.lastSet[f]
        /\ (probe.lastSet[f] # Null /\ probe.sinceSet[f] > svc.ttl) =>
                probe.result = Null /\ KeyOf(f) \notin DOMAIN cache
        /\ (f \in probe.dead) =>
                probe.result = Null /\ KeyOf(f) \notin DOMAIN cache

\* A second get of a fingerprint whose entry an earlier get had found expired.
ExpiredStaysAbsent ==
    /\ probe.op = "get"
    /\ probe.again
    /\ probe.lastSet[probe.f] # Null
    /\ probe.result = Null

SameFingerprint(w, v) ==
    /\ wf[w].prepared # Null /\ wf[v].prepared # Null
    /\ wf[w].roundInfo # Null /\ wf[v].roundInfo # Null
    /\ wf[w].prepared.abiEncodedRequest = wf[v].prepared.abiEncodedRequest
    /\ wf[w].roundInfo.roundId = wf[v].roundInfo.roundId

FailureCodes ==
    {"RETRY_EXHAUSTED", "TIMEOUT", "isFinalized", "fetch", "json", "PROGRESS_THREW"}
        \cup SubmitErrorCodes

\* C8: two workflows on one caching service never fail each other (a workflow
\* fails only with the error of its own retry budget, collaborator, callback
\* or deadline), and at the moment the second of two workflows with the same
\* fingerprint completes, a get of that fingerprint returns a whole record:
\* the one returned to the first or the one returned to the second.
ConcurrentCacheSafety ==
    [][\A w \in WorkflowIds :
        /\ wf'[w].pc = "FAILED" => wf'[w].error.code \in FailureCodes
        /\ \A v \in WorkflowIds \ {w} :
            (/\ svc.caching
             /\ wf[w].pc # "COMPLETE" /\ wf'[w].pc = "COMPLETE"
             /\ wf'[v].pc = "COMPLETE"
             /\ SameFingerprint(w, v)) =>
                LET got == ProofCacheGet(cache', svc.ttl, CacheKeyOf(w)) IN
                /\ got.result \in {wf'[w].proof, wf'[v].proof}
                /\ got.result.response_hex =
                       DAResponseHex(wf[w].prepared.abiEncodedRequest,
                                     wf[w].roundInfo.roundId)
      ]_vars

\* Both workflows missed the cache, both fetched from the service, and the
\* service gave them different records for the same fingerprint.
BothFetchedSameFingerprint ==
    /\ wf["w1"].pc = "COMPLETE" /\ wf["w2"].pc = "COMPLETE"
    /\ wf["w1"].proofFrom = "service" /\ wf["w2"].proofFrom = "service"
    /\ SameFingerprint("w1", "w2")
    /\ wf["w1"].proof # wf["w2"].proof
    /\ CacheKeyOf("w1") \in DOMAIN cache

\* C9: a fingerprint present in ProofCache with a non-expired entry always maps
\* to the same ProofRecord: no step replaces the record of a non-expired entry
\* by a different one.
CacheImmutability ==
    [][\A k \in DOMAIN cache :
        (~Expired(cache[k].age, svc.ttl) /\ k \in DOMAIN cache') =>
            cache'[k].data = cache[k].data
      ]_vars

DeadBeefKey == <<"0", "x", "d", "e", "a", "d", ":", "5">>

\* The scenario of C10 as workflow w lived it.
EndToEndScenario(w) ==
    /\ svc.caching
    /\ wf[w].pc = "COMPLETE" /\ wf[w].proofFrom = "service"
    /\ wf[w].prepared = [status |-> "VALID", abiEncodedRequest |-> DeadRequest]
    /\ wf[w].prepCalls = 1
    /\ wf[w].roundInfo.blockTimestamp = 450
    /\ wf[w].oracleFalses = 2 /\ wf[w].finalized
    /\ wf[w].proofMisses = 1
    /\ wf[w].proof.fields = {"response_hex", "attestation_type", "proof"}

\* C10: with caching enabled, the preparer answering {VALID, 0xdead}, the
\* submission landing in round 5, the oracle answering false, false, true and
\* the proof service "not available" once and then the full proof, the
\* workflow returns RoundInfo with roundId 5 and the ProofRecord with
\* response_hex 0xbeef, and ProofCache holds that record under the key of
\* (0xdead, 5).
EndToEnd ==
    \A w \in WorkflowIds : (Started(w) /\ EndToEndScenario(w)) =>
        /\ wf[w].roundInfo.roundId = 5
        /\ wf[w].proof.response_hex = "0xbeef"
        /\ wf[w].proof = DAFullProof(DeadRequest, 5)
        /\ wf[w].error = NoError
        /\ DOMAIN cache = {DeadBeefKey}
        /\ cache[DeadBeefKey].data = wf[w].proof

EndToEndReached == \E w \in WorkflowIds : Started(w) /\ EndToEndScenario(w)

(***************************************************************************)
(* RetryStrategy: delays, ordering, configuration                          *)
(***************************************************************************)

\* Each delay slept follows from the one before it: the first is
\* initialDelayMs, the next min(previous * backoffMultiplier, maxDelayMs).
BackoffRecurrence ==
    rs.pc # "idle" =>
        \A k \in 1..Len(rs.slept) :
            IF k = 1
            THEN rs.slept[k] = rs.strategy.initialDelayMs
            ELSE rs.slept[k] = Min(rs.slept[k - 1] * rs.strategy.backoffMultiplier,
                                   rs.strategy.maxDelayMs)

\* C11: the delay slept before attempt k+1 is initialDelayMs for k = 1 and
\* the previous delay times backoffMultiplier, capped at maxDelayMs, for each
\* further retry, and no delay slept exceeds maxDelayMs (the values being the
\* fields of the strategy).
BackoffSchedule ==
    /\ BackoffRecurrence
    /\ rs.pc # "idle" =>
          \A k \in 1..Len(rs.slept) : rs.slept[k] <= rs.strategy.maxDelayMs

\* The events of attempts k..n, each a failure that is retried.
RECURSIVE RetryRounds(_, _, _)
RetryRounds(k, n, withCallback) ==
    IF k > n THEN <<>>
    ELSE <<Event("operation", k, NoError)>> \o
         (IF withCallback THEN <<Event("onRetry", k, OpError(k))>> ELSE <<>>) \o
         <<Event("sleep", k, NoError)>> \o
         RetryRounds(k + 1, n, withCallback)

\* Failures that execute retries: all of them when the operation then
\* succeeds, all but the last when the attempts run out.
RetriedFailures ==
    IF rs.failsBefore < rs.strategy.maxAttempts
    THEN rs.failsBefore ELSE rs.strategy.maxAttempts - 1

\* C12: in a finished execute (onRetry absent or returning), every failed
\* attempt k < maxAttempts is followed by one onRetry(k, error) when the
\* callback is given and then one sleep, before attempt k+1; the successful
\* attempt and the last failed attempt are followed by neither; so f failures
\* before a success give f sleeps and an exhausted run maxAttempts - 1.
RetryOrdering ==
    (rs.pc = "done" /\ NoCallbackThrew) =>
        /\ rs.trace = RetryRounds(1, RetriedFailures, rs.onRetry = "returns") \o
                          <<Event("operation", RetriedFailures + 1, NoError)>>
        /\ Len(rs.slept) = RetriedFailures
        /\ rs.outcome = "returned" => Len(rs.slept) = rs.failsBefore
        /\ rs.outcome = "threw" => Len(rs.slept) = rs.strategy.maxAttempts - 1

\* Three attempts with a callback, all failing: two onRetry calls, two sleeps.
ExhaustedWithCallback ==
    /\ rs.pc = "done"
    /\ rs.onRetry = "returns"
    /\ rs.strategy.maxAttempts = 3
    /\ rs.outcome = "threw"
    /\ Len(rs.retried) = 2
    /\ Len(rs.trace) = 7

\* C13: a strategy built with maxAttempts = 0 never calls the operation, and
\* execute fails with a configuration error.
ZeroAttemptsRejected ==
    (rs.pc # "idle" /\ rs.options.maxAttempts = 0) =>
        /\ rs.calls = 0
        /\ rs.pc = "done" =>
              (rs.outcome = "threw" /\ rs.error.name = "ConfigurationError")

(***************************************************************************)
(* waitForRoundFinalization                                                *)
(***************************************************************************)

ConfiguredInterval(w) == OrDefault(wf[w].merged.checkIntervalMs, 30000)

\* Workflow w goes to sleep in the waiting loop in this step.
WaiterSleeps(w) == wf[w].pc = "wait_poll" /\ wf'[w].pc = "wait_sleep"

\* Non-decreasing and capped intervals, for the waiters that start from an
\* interval not above the cap.
AdaptiveMonotoneUnderCap ==
    [][\A w \in WorkflowIds :
        (WaiterSleeps(w) /\ ConfiguredInterval(w) <= 60000) =>
            /\ wf'[w].remaining >= wf[w].checkInterval
            /\ wf'[w].remaining <= 60000
      ]_vars

\* C15: for every configured checkInterval, each interval the waiter sleeps is
\* at least the interval it slept before (the configured one, for the first
\* sleep) and at most 60000 ms.
AdaptiveMonotone ==
    [][\A w \in WorkflowIds :
        WaiterSleeps(w) =>
            /\ wf'[w].remaining >= wf[w].checkInterval
            /\ wf'[w].remaining <= 60000
      ]_vars

\* The number of non-finalized checks of the waiter, this one included, agrees
\* with the number of false answers the oracle gave.
ChecksCounted(w) ==
    IF wf'[w].oracleFalses <= MaxCountedMisses
    THEN wf'[w].consecutiveChecks = wf'[w].oracleFalses
    ELSE wf'[w].consecutiveChecks > MaxCountedMisses

\* The sleep after the n-th non-finalized check: the configured interval for
\* n <= 5, then the previous interval times 1.5, limited to 60000.
ScheduledInterval(w) ==
    IF wf'[w].consecutiveChecks <= 5
    THEN ConfiguredInterval(w)
    ELSE Min((wf[w].checkInterval * 3) \div 2, 60000)

GrowthScheduleUnderCap ==
    [][\A w \in WorkflowIds :
        (WaiterSleeps(w) /\ ConfiguredInterval(w) <= 60000) =>
            ChecksCounted(w) /\ wf'[w].remaining = ScheduledInterval(w)
      ]_vars

\* C16: the sleeps after the first five non-finalized checks use the
\* configured checkInterval unchanged; from the sixth on, each sleep is the
\* previous interval times 1.5, limited to 60000 ms.
GrowthSchedule ==
    [][\A w \in WorkflowIds :
        WaiterSleeps(w) =>
            ChecksCounted(w) /\ wf'[w].remaining = ScheduledInterval(w)
      ]_vars

\* A waiter that has grown its interval: six or more checks, a longer sleep.
IntervalGrown ==
    \E w \in WorkflowIds :
        /\ wf[w].pc = "wait_sleep"
        /\ wf[w].consecutiveChecks > 5
        /\ wf[w].checkInterval > ConfiguredInterval(w)

\* C17: whatever onProgress does, throwing included, the waiting loop and the
\* proof-polling loop go on: no workflow ends with the callback's exception.
ProgressHarmless ==
    \A w \in WorkflowIds : wf[w].pc # "unused" => wf[w].error # ProgressError

(***************************************************************************)
(* retrieveProof                                                           *)
(***************************************************************************)

\* Workflow w leaves the cache check of retrieveProof in this step.
LooksUp(w) == wf[w].pc = "ret_lookup" /\ wf'[w].pc # "ret_lookup"

\* C18: when the cache holds an entry for (abiEncodedRequest, roundId) whose
\* age is at most the ttl, retrieveProof returns that record at its cache
\* check: the oracle is not queried, nothing is slept, the proof service is
\* not asked, and the cache is left as it was.
CacheHitShortCircuit ==
    [][\A w \in WorkflowIds :
        (/\ svc.caching
         /\ LooksUp(w)
         /\ CacheKeyOf(w) \in DOMAIN cache
         /\ cache[CacheKeyOf(w)].age <= svc.ttl) =>
            /\ wf'[w].pc = "COMPLETE"
            /\ wf'[w].proof = cache[CacheKeyOf(w)].data
            /\ wf'[w].proofFrom = "cache"
            /\ ~wf'[w].finalized /\ wf'[w].oracleFalses = 0
            /\ wf'[w].proofMisses = 0
            /\ wf'[w].remaining = 0 /\ wf'[w].sinceFinalized = 0
            /\ cache' = cache
      ]_vars

\* One workflow was served from the cache the other one had filled, at the
\* last moment of the entry's life.
ServedFromCache ==
    \E w \in WorkflowIds :
        /\ wf[w].pc = "COMPLETE" /\ wf[w].proofFrom = "cache"
        /\ CacheKeyOf(w) \in DOMAIN cache
        /\ cache[CacheKeyOf(w)].age = svc.ttl
        /\ wf[w].proof = cache[CacheKeyOf(w)].data

\* C19: when the finalization wait times out, the workflow's retrieveProof
\* fails with the waiter's FDCTimeoutError as it was thrown (its timeoutMs the
\* merged maxWaitTimeMs), the proof service was never asked, and the cache has
\* no entry for the fingerprint.
WaitTimeoutPropagates ==
    \A w \in WorkflowIds :
        (Started(w) /\ TimedOut(w) /\ ~wf[w].finalized) =>
            /\ wf[w].error = [name |-> "FDCTimeoutError", code |-> "TIMEOUT",
                              timeoutMs |-> wf[w].merged.maxWaitTimeMs]
            /\ wf[w].merged.maxWaitTimeMs # 0
            /\ wf[w].proofMisses = 0 /\ wf[w].proofFrom = None
            /\ wf[w].proof = Null
            /\ CacheKeyOf(w) \notin DOMAIN cache

\* A waiter of a caching service timed out after two false answers.
WaitTimedOutWithCache ==
    \E w \in WorkflowIds :
        /\ svc.caching
        /\ TimedOut(w) /\ ~wf[w].finalized
        /\ wf[w].oracleFalses = 2

\* C20: the first request to the proof service is sent only from the settle
\* sleep of a round the oracle reported finalized, once 10000 ms have passed
\* since the waiter returned; a workflow that asks the proof service, or has
\* asked it, has seen its round finalized.
SettleBeforeProof ==
    [][\A w \in WorkflowIds :
        /\ (wf[w].pc # "proof_poll" /\ wf'[w].pc = "proof_poll") =>
              \/ wf[w].pc = "proof_sleep"
              \/ /\ wf[w].pc = "settle"
                 /\ wf[w].finalized
                 /\ wf[w].proofMisses = 0
                 /\ wf[w].sinceFinalized >= 10000
        /\ (/\ Started(w)
            /\ \/ wf'[w].pc \in {"proof_poll", "proof_sleep"}
               \/ wf'[w].proofMisses > 0
               \/ wf'[w].proofFrom = "service") => wf'[w].finalized
      ]_vars

\* The first proof request is in flight, after one false answer of the oracle.
FirstProofRequestSent ==
    \E w \in WorkflowIds :
        /\ wf[w].pc = "proof_poll"
        /\ wf[w].proofMisses = 0
        /\ wf[w].oracleFalses = 1 /\ wf[w].finalized

ProofFields == {"response_hex", "attestation_type", "proof"}

\* C21: only a 2xx response carrying all three fields of the proof ends the
\* proof-polling loop: a payload with a field missing is never returned to
\* the caller and never stored in the cache.
WellFormedProofOnly ==
    /\ \A w \in WorkflowIds :
          (Started(w) /\ wf[w].pc = "COMPLETE") => wf[w].proof.fields = ProofFields
    /\ \A k \in DOMAIN cache : cache[k].data.fields = ProofFields

\* C22: the proof-polling loop has its own deadline, counted from its first
\* request and not from the start of the finalization wait: it fails with
\* FDCTimeoutError only when more than maxWaitTimeMs has passed since then, and
\* an answer that arrives after that much time never leads to another sleep
\* (the loop ends: with the proof, with the timeout, or with the exception of
\* the fetch).
ProofDeadline ==
    [][\A w \in WorkflowIds :
        LET a == wf[w]
            b == wf'[w]
        IN
        /\ (a.pc = "proof_poll" /\ b.pc = "FAILED" /\ b.error.name = "FDCTimeoutError") =>
              /\ a.merged.maxWaitTimeMs # 0
              /\ a.sincePolling > a.merged.maxWaitTimeMs
              /\ b.error.timeoutMs = a.merged.maxWaitTimeMs
        /\ (/\ a.pc = "proof_poll" /\ b.pc # "proof_poll"
            /\ a.merged.maxWaitTimeMs # 0
            /\ a.sincePolling > a.merged.maxWaitTimeMs) =>
              \/ b.pc = "COMPLETE"
              \/ /\ b.pc = "FAILED"
                 /\ b.error \in {FDCTimeoutError(a.merged.maxWaitTimeMs),
                                 CollaboratorError("fetch"), CollaboratorError("json")}
      ]_vars

\* The proof polling timed out in a workflow whose finalization wait had
\* itself taken time (one false answer, one sleep) and then the settle delay.
ProofPollingTimedOut ==
    \E w \in WorkflowIds :
        /\ TimedOut(w) /\ wf[w].finalized
        /\ wf[w].oracleFalses = 1
        /\ wf[w].sincePolling > wf[w].merged.maxWaitTimeMs

\* C23: every timeout error carries the phase whose deadline passed,
\* "finalization" for the waiter and "proof" for the proof polling, and the
\* maxWaitTimeMs in effect for the call.
TimeoutCarriesPhase ==
    \A w \in WorkflowIds :
        (Started(w) /\ TimedOut(w)) =>
            /\ wf[w].error.timeoutMs = wf[w].merged.maxWaitTimeMs
            /\ "phase" \in DOMAIN wf[w].error
            /\ wf[w].error.phase = IF wf[w].finalized THEN "proof" ELSE "finalization"

\* What the code's timeout errors do carry: the limit in effect.
TimeoutCarriesLimit ==
    \A w \in WorkflowIds :
        (Started(w) /\ TimedOut(w)) =>
            /\ wf[w].error.timeoutMs = wf[w].merged.maxWaitTimeMs
            /\ DOMAIN wf[w].error = {"name", "code", "timeoutMs"}

\* C24: with caching enabled, at the moment retrieveProof returns a record it
\* fetched from the proof service, the record is stored under the fingerprint:
\* a get of that fingerprint right after the return yields it.
StoreThenReturn ==
    [][\A w \in WorkflowIds :
        (svc.caching /\ wf[w].pc = "proof_poll" /\ wf'[w].pc = "COMPLETE") =>
            /\ wf'[w].proofFrom = "service"
            /\ ProofCacheGet(cache', svc.ttl, CacheKeyOf(w)).result = wf'[w].proof
      ]_vars

\* A record fetched on the second poll has just been returned and stored.
ReturnedAndStored ==
    \E w \in WorkflowIds :
        /\ svc.caching
        /\ wf[w].pc = "COMPLETE" /\ wf[w].proofFrom = "service"
        /\ wf[w].proofMisses = 1
        /\ CacheKeyOf(w) \in DOMAIN cache
        /\ cache[CacheKeyOf(w)] = NewEntry(wf[w].proof)

(***************************************************************************)
(* Preparation                                                             *)
(***************************************************************************)

\* The workflow was given params with an empty URL, filter or signature.
GivenMalformedParams(w) ==
    /\ wf[w].params # Null
    /\ \/ wf[w].params.apiUrl = ""
       \/ wf[w].params.postProcessJq = ""
       \/ wf[w].params.abiSignature = ""

\* C25: a workflow given params with an empty URL, filter or signature fails
\* with a ValidationError before any collaborator is contacted: the preparer
\* is never called for it and nothing is retried.
ValidationFirst ==
    \A w \in WorkflowIds :
        (Started(w) /\ GivenMalformedParams(w) /\ wf[w].pc # "start") =>
            /\ wf[w].prepCalls = 0 /\ wf[w].submitCalls = 0
            /\ wf[w].pc = "FAILED"
            /\ wf[w].error.name = "FDCValidationError"

\* What a failed call of the preparer throws inside execute.
PreparerErrors ==
    {CollaboratorError("fetch"), FDCError("VERIFIER_ERROR"), FDCError("INVALID_REQUEST")}

\* C26: a preparer answer whose status is not "VALID" is not retried: no
\* backoff sleep follows it, and the workflow fails with a ValidationError,
\* not with RetryExhausted.
NonValidNotRetried ==
    \A w \in WorkflowIds :
        Started(w) =>
            /\ ~(wf[w].pc = "prep_sleep" /\ wf[w].lastError = FDCError("INVALID_REQUEST"))
            /\ (wf[w].pc = "FAILED" /\ wf[w].error.code = "RETRY_EXHAUSTED") =>
                  wf[w].error.originalError # FDCError("INVALID_REQUEST")

\* C27: every failed call of the preparer (network error, non-2xx status,
\* status other than "VALID") is followed by a backoff sleep and another
\* call while fewer than maxAttempts calls have been made; the phase ends only
\* with a call that succeeds or, after maxAttempts calls, with RetryExhausted.
PreparerRetried ==
    [][\A w \in WorkflowIds :
        LET a == wf[w]
            b == wf'[w]
            maxAttempts == RetryStrategyNew(svc.defaultRetryOptions).maxAttempts
        IN
        /\ (a.pc = "prep_fetch" /\ b.pc # "prep_fetch") =>
              \/ b.pc = "sub_fee" /\ b.prepared.status = "VALID"
              \/ /\ b.pc = "prep_sleep"
                 /\ a.prepCalls < maxAttempts
                 /\ b.lastError \in PreparerErrors
              \/ /\ b.pc = "FAILED"
                 /\ a.prepCalls = maxAttempts
                 /\ b.error.code = "RETRY_EXHAUSTED"
                 /\ b.error.attempts = maxAttempts
                 /\ b.error.originalError \in PreparerErrors
        /\ (a.pc = "prep_sleep" /\ b.pc # "prep_sleep") =>
              b.pc = "prep_fetch" /\ b.prepCalls = a.prepCalls + 1
      ]_vars

\* The preparer is being called a second time after a non-"VALID" status.
NonValidRetried ==
    \E w \in WorkflowIds :
        /\ wf[w].pc = "prep_fetch"
        /\ wf[w].prepCalls = 2
        /\ wf[w].lastError = FDCError("INVALID_REQUEST")

\* C28: when the prepare phase has spent its attempts, the workflow ends with
\* RetryExhausted there: the preparer was called maxAttempts times, the
\* ledger, the oracle and the proof service not at all, the cache is
\* untouched, and a failed workflow takes no further step, in particular none
\* back to the start.
ExhaustionHalts ==
    [][\A w \in WorkflowIds :
        LET b == wf'[w] IN
        /\ (b.pc = "FAILED" /\ b.error.code = "RETRY_EXHAUSTED") =>
              /\ b.prepCalls = RetryStrategyNew(svc.defaultRetryOptions).maxAttempts
              /\ b.submitCalls = 0 /\ b.txCount = 0
              /\ b.prepared = Null /\ b.roundInfo = Null
              /\ b.oracleFalses = 0 /\ ~b.finalized
              /\ b.proofMisses = 0 /\ b.proof = Null
              /\ cache' = EmptyCache
        /\ wf[w].pc = "FAILED" => b = wf[w]
        /\ b.pc = "start" => wf[w].pc = "start"
      ]_vars

\* Two calls of the preparer failed and a caching service gave up.
PrepareExhausted ==
    \E w \in WorkflowIds :
        /\ svc.caching
        /\ wf[w].pc = "FAILED" /\ wf[w].error.code = "RETRY_EXHAUSTED"
        /\ wf[w].prepCalls = 2

\* C29: lazy TTL expiry. A get of F hides the entry exactly when more than ttl
\* has passed since it was set (at an age equal to ttl the record is still
\* returned) and removes it from the store in that same call; a get of an
\* entry of age at most ttl returns it and leaves the store as it was. A key
\* leaves the store only by clear or by such a get, and a stored record is
\* replaced only by a set under its key.
LazyExpiry ==
    [][/\ probe'.op = "get" =>
            LET f == probe'.f
                key == KeyOf(f)
                live == probe.lastSet[f] # Null /\ f \notin probe.dead
            IN
            /\ live <=> key \in DOMAIN cache
            /\ (live /\ probe.sinceSet[f] > svc.ttl) =>
                    /\ probe'.result = Null
                    /\ DOMAIN cache' = DOMAIN cache \ {key}
                    /\ \A k \in DOMAIN cache' : cache'[k] = cache[k]
            /\ (live /\ probe.sinceSet[f] <= svc.ttl) =>
                    /\ probe'.result = probe.lastSet[f]
                    /\ cache' = cache
            /\ ~live => probe'.result = Null /\ cache' = cache
       /\ \A k \in DOMAIN cache \ DOMAIN cache' :
            \/ probe'.op = "clear"
            \/ /\ probe'.op = "get" /\ k = KeyOf(probe'.f)
               /\ cache[k].age > svc.ttl
       /\ \A k \in DOMAIN cache \cap DOMAIN cache' :
            cache'[k].data # cache[k].data =>
                probe'.op = "set" /\ k = KeyOf(probe'.f)
      ]_vars

\* A get issued exactly ttl after the set returned the record.
ReturnedAtTtl ==
    /\ probe.op = "get"
    /\ probe.lastSet[probe.f] # Null
    /\ probe.sinceSet[probe.f] = svc.ttl
    /\ probe.result = probe.lastSet[probe.f]
    /\ KeyOf(probe.f) \in DOMAIN cache

\* C30: cancellation. Once the caller has aborted and more than one polling
\* tick has passed since, the workflow wakes from no sleep into another call of
\* the finalization oracle or of the proof service.
AbortReleasesPolling ==
    [][\A w \in WorkflowIds :
        (Started(w) /\ wf[w].sinceAbort > PollingTick(wf[w])) =>
            ~(/\ wf[w].pc \in {"wait_sleep", "proof_sleep"}
              /\ wf'[w].pc \in {"wait_poll", "proof_poll"})
      ]_vars

\* C31: the roundId of a RoundInfo is a non-negative integer, the integer
\* quotient of (blockTimestamp - firstVotingRoundStartTs) by
\* votingEpochDurationSeconds: the same block timestamp gives the same roundId,
\* and a later submission never gets a smaller roundId than an earlier one.
RoundIdDerivation ==
    probe.roundInfo # Null =>
        LET r == probe.roundInfo
            since == r.blockTimestamp - probe.pp.firstVotingRoundStartTs
            dur == probe.pp.votingEpochDurationSeconds
        IN
        /\ r.roundId \in Nat
        /\ r.roundId * dur <= since /\ since < (r.roundId + 1) * dur
        /\ probe.earlier # Null =>
            /\ probe.earlier.blockTimestamp <= r.blockTimestamp
            /\ probe.earlier.roundId <= r.roundId
            /\ probe.earlier.blockTimestamp = r.blockTimestamp =>
                    probe.earlier.roundId = r.roundId

\* Two submissions in blocks of different rounds, the later one in the middle of
\* its round.
LaterRoundReached ==
    /\ probe.roundInfo # Null /\ probe.earlier # Null
    /\ probe.earlier.roundId < probe.roundInfo.roundId
    /\ probe.pp.votingEpochDurationSeconds = 90
    /\ probe.roundInfo.blockTimestamp - probe.pp.firstVotingRoundStartTs = 135

RetryDelayFromConfig ==
    \A w \in WorkflowIds :
        (Started(w) /\ ~svc.retryOptionsGiven) =>
            /\ wf[w].prepCalls <= svc.fdcConfig.requestRetryAttempts
            /\ (wf[w].pc = "prep_sleep" /\ wf[w].prepCalls = 1) =>
                    wf[w].delay = svc.fdcConfig.requestRetryDelayMs

\* C34: set(F, R) over an existing entry replaces the record and restarts the
\* TTL: whatever record the entry held and whatever its age, the store then
\* holds R at age 0 under F, and every get(F) made no later than ttl after the
\* most recent set(F, .) returns the record of that set.
SetOverwrites ==
    /\ probe.op = "set" =>
            /\ KeyOf(probe.f) \in DOMAIN cache
            /\ cache[KeyOf(probe.f)] = [data |-> probe.lastSet[probe.f], age |-> 0]
    /\ (/\ probe.op = "get"
        /\ probe.lastSet[probe.f] # Null /\ probe.sinceSet[probe.f] <= svc.ttl) =>
                /\ probe.result = probe.lastSet[probe.f]
                /\ cache[KeyOf(probe.f)].age = probe.sinceSet[probe.f]

\* An entry as old as the ttl was replaced by a different record, and a get made
\* ttl after that set returned the new record.
OverwrittenServedFresh ==
    /\ probe.op = "get"
    /\ probe.replaced # Null
    /\ probe.replaced.f = probe.f
    /\ probe.replaced.age = svc.ttl
    /\ probe.replaced.other
    /\ probe.sinceSet[probe.f] = svc.ttl
    /\ probe.result = probe.lastSet[probe.f]

\* C35: a retrieveProof that does not return a proof writes nothing to the
\* cache. Its cache lookup changes the cache only by removing the expired entry
\* of its own fingerprint, every entry of another fingerprint staying as it
\* was; and no later step of the call that is not its successful return, in
\* particular none that fails it (a Timeout of the wait or of the polling, an
\* error of a collaborator), changes the cache.
FailureLeavesCache ==
    [][\A w \in WorkflowIds :
        LET a == wf[w]
            b == wf'[w]
            key == CacheKeyOf(w)
        IN
        /\ (a.pc = "ret_lookup" /\ b.pc = "ret_config") =>
              \/ cache' = cache
              \/ /\ key \in DOMAIN cache /\ cache[key].age > svc.ttl
                 /\ DOMAIN cache' = DOMAIN cache \ {key}
                 /\ \A k \in DOMAIN cache' : cache'[k] = cache[k]
        /\ (/\ Phase(a.pc) = "AWAITING_PROOF" /\ a.pc # "ret_lookup"
            /\ b.pc # a.pc /\ b.pc # "COMPLETE") => cache' = cache
      ]_vars

\* The polling of round 5 timed out on a service whose cache held an expired
\* proof of round 5 and a proof of round 6: the first is gone, the second is
\* still there.
FailedAfterEviction ==
    \E w \in WorkflowIds :
        /\ wf[w].pc = "FAILED" /\ wf[w].error.name = "FDCTimeoutError"
        /\ wf[w].finalized
        /\ wf[w].roundInfo.roundId = 5
        /\ DOMAIN cache = {KeyOf(<<DeadRequest, 6>>)}

\* C36: when onRetry throws after a failed attempt (not the last), execute
\* ends there with the callback's error: the operation is not called again,
\* nothing is slept, and the error is the callback's own, not RetryExhausted.
CallbackThrowEnds ==
    /\ rs.pc # "idle" =>
          (rs.onRetry = "throws" => rs.pc \notin {"sleeping", "woke"})
    /\ (/\ rs.pc = "done" /\ rs.onRetry = "throws"
        /\ rs.failsBefore >= 1 /\ rs.strategy.maxAttempts >= 2) =>
            /\ rs.outcome = "threw"
            /\ rs.error = CallbackError
            /\ rs.error.code # "RETRY_EXHAUSTED"
            /\ rs.calls = 1
            /\ rs.slept = <<>>
            /\ rs.trace = <<Event("operation", 1, NoError),
                            Event("onRetry", 1, OpError(1))>>

\* The callback threw after the first of three attempts, although the second
\* attempt would have succeeded.
CallbackThrewEarly ==
    /\ rs.pc = "done"
    /\ rs.error = CallbackError
    /\ rs.strategy.maxAttempts = 3
    /\ rs.failsBefore = 1

\* C37: when relay.isFinalized, the fetch of the proof service or the json()
\* of its 2xx response rejects inside a polling loop, the step that receives
\* the rejection ends the workflow with that very error: it is not counted as
\* a negative answer, no deadline is tested (the error is never Timeout), no
\* sleep or further poll follows, and the cache is not written.
ExceptionEndsPolling ==
    [][\A w \in WorkflowIds :
        LET a == wf[w]
            b == wf'[w]
        IN
        (a.pc \in {"wait_poll", "proof_poll"} /\ b.pc # a.pc /\ b.answerThrew) =>
            /\ b.pc = "FAILED"
            /\ b.error \in (IF a.pc = "wait_poll"
                            THEN {CollaboratorError("isFinalized")}
                            ELSE {CollaboratorError("fetch"), CollaboratorError("json")})
            /\ b.oracleFalses = a.oracleFalses /\ b.proofMisses = a.proofMisses
            /\ b.proof = Null /\ b.remaining = 0
            /\ cache' = cache
      ]_vars

\* After two negative answers of the proof service, the body of its third,
\* 2xx, response could not be parsed: the workflow of a caching service failed
\* with that error and the cache is empty.
UnparseableEndedPolling ==
    \E w \in WorkflowIds :
        /\ svc.caching /\ cache = EmptyCache
        /\ wf[w].pc = "FAILED" /\ wf[w].answerThrew
        /\ wf[w].error = CollaboratorError("json")
        /\ wf[w].proofMisses = 2

CacheAfterSubmission ==
    [][\A w \in WorkflowIds :
        LET a == wf[w]
            b == wf'[w]
        IN
        /\ (Phase(a.pc) \in {"PREPARING", "SUBMITTING"} /\ b.pc # a.pc) =>
              /\ cache' = cache
              /\ b.pc # "COMPLETE" /\ b.proof = Null /\ b.proofFrom = None
        /\ (a.pc # "COMPLETE" /\ b.pc = "COMPLETE" /\ b.proofFrom = "cache") =>
              /\ a.pc = "ret_lookup"
              /\ b.prepCalls >= 1 /\ b.prepared.status = "VALID"
              /\ b.submitCalls = 1 /\ b.txCount = 1 /\ b.roundInfo # Null
              /\ b.oracleFalses = 0 /\ ~b.finalized /\ b.proofMisses = 0
              /\ cache' = cache
      ]_vars

\* The cache held the proof of round 6 before the run began; the run called the
\* preparer twice, sent its transaction, and was then served from the cache.
SubmittedThenServed ==
    \E w \in WorkflowIds :
        /\ wf[w].pc = "COMPLETE" /\ wf[w].proofFrom = "cache"
        /\ wf[w].prepCalls = 2 /\ wf[w].txCount = 1
        /\ wf[w].roundInfo.roundId = 6
        /\ wf[w].proof = DAFullProof(DeadRequest, 6)

\* C40: submitAttestationRequest reads the fee, then sends the transaction,
\* then reads the block and the protocol parameters. A RoundInfo appears only
\* at the end of these reads, after the one transaction; a failure of the fee
\* read fails the workflow with nothing sent; a failure of the transaction or
\* of a read after it fails the workflow with that error, without a RoundInfo,
\* with the one transaction still sent and no second one.
SubmissionSequence ==
    [][\A w \in WorkflowIds :
        LET a == wf[w]
            b == wf'[w]
        IN
        /\ (a.pc = "sub_fee" /\ b.pc # a.pc) =>
              \/ b.pc = "sub_tx" /\ a.txCount = 0 /\ b.txCount = 1
              \/ /\ b.pc = "FAILED" /\ b.error = CollaboratorError("getRequestFee")
                 /\ b.txCount = 0 /\ b.roundInfo = Null
        /\ (a.pc = "sub_tx" /\ b.pc # a.pc) =>
              \/ b.pc = "sub_reads" /\ b.txCount = 1 /\ b.roundInfo = Null
              \/ /\ b.pc = "FAILED" /\ b.error = CollaboratorError("requestAttestation")
                 /\ b.txCount = 1 /\ b.roundInfo = Null
        /\ (a.pc = "sub_reads" /\ b.pc # a.pc) =>
              \/ b.pc = "ret_lookup" /\ b.txCount = 1 /\ b.roundInfo # Null
              \/ /\ b.pc = "FAILED" /\ b.error = CollaboratorError("getBlock")
                 /\ b.txCount = 1 /\ b.submitCalls = 1 /\ b.roundInfo = Null
        /\ a.pc # "unused" =>
              /\ a.txCount <= b.txCount /\ b.txCount <= 1
              /\ (a.roundInfo = Null /\ b.roundInfo # Null) => a.pc = "sub_reads"
      ]_vars

\* The transaction was sent and mined, the read of its block failed: the
\* workflow failed in its submit phase, without a RoundInfo, with one
\* transaction on the ledger.
FailedAfterTransaction ==
    \E w \in WorkflowIds :
        /\ wf[w].pc = "FAILED" /\ wf[w].error = CollaboratorError("getBlock")
        /\ wf[w].prepared # Null /\ wf[w].roundInfo = Null
        /\ wf[w].txCount = 1 /\ wf[w].submitCalls = 1
        /\ wf[w].prepCalls = 2

====
